---- MODULE Spec2Model ----
(***************************************************************************)
(* wled-bandwidth-meter: the render thread (Renderer in src/main.rs), the  *)
(* shared render state it reads, and the update path of main() that writes *)
(* it (bandwidth samples, configuration reloads, test mode, Ctrl+C).       *)
(*                                                                         *)
(* Units.  Time is counted in ticks of 0.1 microsecond (Instant/Duration   *)
(* have nanosecond resolution; 0.1 us is fine enough to see the truncation *)
(* of the frame period to whole microseconds).  Bandwidth is in kbps, as   *)
(* in SharedRenderState; max_gbps is held in millionths of a Gbps so that  *)
(* max_gbps * 1000 * 1000 kbps stays a small integer.  strobe_duration_ms  *)
(* is held in thousandths of a millisecond.  f64 fields are integers here; *)
(* their arithmetic is exact instead of rounded.                           *)
(***************************************************************************)
EXTENDS Integers, Sequences, FiniteSets, TLC

VARIABLES
    config,              \* main(): the BandwidthConfig last applied (`config`)
    new_config,          \* main(): Some(received config whose test-mode block is still to run), or None
    main_pc,             \* main(): "init" (before test-mode initialisation), "loop", "test", "done"
    shared,              \* Arc<Mutex<SharedRenderState>>
    shutdown,            \* Arc<AtomicBool>
    now,                 \* the monotonic clock, in ticks, since the render loop started
    pc,                  \* Renderer::run: "poll", "fps", "cache", "render", "sleep", "exited", "panicked"
    fps,                 \* Renderer::run: the local `fps` read in this iteration, 0 outside an iteration
    last_frame,          \* Renderer::run: the local `last_frame`
    delta,               \* Renderer::run: the local `delta_seconds` (in ticks) of the current tick, 0 outside a tick
    cache,               \* Renderer: tx/rx gradient, colors (palette) and solid color
    last_generation,     \* Renderer: last_generation
    tx_animation_offset, \* Renderer: tx_animation_offset, as a numerator over OffsetDen
    rx_animation_offset, \* Renderer: rx_animation_offset, as a numerator over OffsetDen
    sink_writes,         \* Frame Sink: the writes handed over by the last tick that wrote
    writes_after_stop,   \* history: Frame Sink writes made while the shutdown flag was set
    delta_total,         \* history: sum of the deltas passed to render_frame
    lock_work,           \* history: what the render thread did while holding the shared-state lock in
                         \* the latest critical section of the current iteration
    call,                \* a function of the program studied on its own: its arguments, or None
    result               \* that function's result (or the state it keeps between calls), or None

vars == <<config, new_config, main_pc, shared, shutdown, now, pc, fps, last_frame, delta,
          cache, last_generation, tx_animation_offset, rx_animation_offset,
          sink_writes, writes_after_stop, delta_total, lock_work, call, result>>

call_vars == <<call, result>>

main_vars == <<config, new_config, main_pc, shared, shutdown>>

render_vars == <<now, pc, fps, last_frame, delta, cache, last_generation,
                 tx_animation_offset, rx_animation_offset,
                 sink_writes, writes_after_stop, delta_total, lock_work>>

\* Option<T>: None, or Some(x); Result<T>: a record with ok = FALSE, or ok = TRUE and the value
None == <<>>
Some(x) == <<x>>
IsSome(o) == o # <<>>
Unwrap(o) == o[1]
Err == [ok |-> FALSE, panics |-> FALSE]
Panic == [ok |-> FALSE, panics |-> TRUE]

Min(a, b) == IF a <= b THEN a ELSE b

(***************************************************************************)
(* Strings that are parsed character by character are tuples of            *)
(* one-character strings.                                                  *)
(***************************************************************************)
Empty == <<>>
Blue == <<"0", "0", "9", "9", "F", "F">>
Red == <<"F", "F", "0", "0", "0", "0">>
Green == <<"#", "0", "0", "f", "f", "0", "0">>
Black == <<"0", "0", "0", "0", "0", "0">>
White == <<"F", "F", "F", "F", "F", "F">>
NotHex == <<"G", "G", "0", "0", "0", "0">>
Short == <<"F", "F", "F">>
RedGreen == Red \o <<",", " ">> \o Green
Signed == <<"+", "F", "+", "F", "+", "F">>
Padded == <<" ">> \o Red \o <<" ">>
Seven == Red \o <<"0">>
RedBad == Red \o <<",">> \o NotHex

HexDigits == {"0", "1", "2", "3", "4", "5", "6", "7", "8", "9",
              "a", "b", "c", "d", "e", "f", "A", "B", "C", "D", "E", "F"}

HexVal(c) ==
    CASE c = "0" -> 0 [] c = "1" -> 1 [] c = "2" -> 2 [] c = "3" -> 3
      [] c = "4" -> 4 [] c = "5" -> 5 [] c = "6" -> 6 [] c = "7" -> 7
      [] c = "8" -> 8 [] c = "9" -> 9
      [] c \in {"a", "A"} -> 10 [] c \in {"b", "B"} -> 11 [] c \in {"c", "C"} -> 12
      [] c \in {"d", "D"} -> 13 [] c \in {"e", "E"} -> 14 [] c \in {"f", "F"} -> 15

\* u8::from_str_radix(<<a, b>>, 16): one leading '+' is accepted, then digits;
\* -1 stands for the ParseIntError.
ParseU8(a, b) ==
    IF a = "+"
    THEN IF b \in HexDigits THEN HexVal(b) ELSE -1
    ELSE IF a \in HexDigits /\ b \in HexDigits THEN 16 * HexVal(a) + HexVal(b) ELSE -1

RECURSIVE TrimStartMatches(_, _)
TrimStartMatches(s, c) ==
    IF s # <<>> /\ Head(s) = c THEN TrimStartMatches(Tail(s), c) ELSE s

\* a character that takes two bytes in UTF-8; every other character of the
\* model takes one
EAcute == "U+00E9"

Utf8Len(c) == IF c = EAcute THEN 2 ELSE 1

\* str::len: the length in bytes
RECURSIVE ByteLen(_)
ByteLen(s) == IF s = <<>> THEN 0 ELSE Utf8Len(Head(s)) + ByteLen(Tail(s))

\* str::is_char_boundary
IsCharBoundary(s, index) == \E k \in 0..Len(s) : ByteLen(SubSeq(s, 1, k)) = index

\* &s[from..to] for two char boundaries: the characters between the byte offsets
ByteSlice(s, from, to) ==
    LET first == CHOOSE k \in 0..Len(s) : ByteLen(SubSeq(s, 1, k)) = from
        last == CHOOSE k \in 0..Len(s) : ByteLen(SubSeq(s, 1, k)) = to
    IN SubSeq(s, first + 1, last)

\* u8::from_str_radix of a two-byte slice
ParseSlice(slice) == IF Len(slice) = 2 THEN ParseU8(slice[1], slice[2]) ELSE -1

\* Rgb::from_hex, lines 473-475, on the string `h` left by the trim: the three
\* slices are taken and parsed in turn
ParseRgb(h) ==
    IF ~IsCharBoundary(h, 2) THEN Panic
    ELSE IF ParseSlice(ByteSlice(h, 0, 2)) < 0 THEN Err
    ELSE IF ~IsCharBoundary(h, 4) THEN Panic
    ELSE IF ParseSlice(ByteSlice(h, 2, 4)) < 0 THEN Err
    ELSE IF ParseSlice(ByteSlice(h, 4, 6)) < 0 THEN Err
    ELSE [ok |-> TRUE, rgb |-> <<ParseSlice(ByteSlice(h, 0, 2)), ParseSlice(ByteSlice(h, 2, 4)),
                                 ParseSlice(ByteSlice(h, 4, 6))>>]

\* lines 469-471: the length test, in bytes
CheckedLength(h) == IF ByteLen(h) # 6 THEN Err ELSE ParseRgb(h)

\* Rgb::from_hex: the color, Err for the parse error, or Panic when a slice
\* &hex[a..b] does not end on a character boundary
FromHex(hex) == CheckedLength(TrimStartMatches(hex, "#"))

\* six bytes whose second and third are one character, and six bytes that start
\* with that character
Sliced == <<"a", EAcute, "0", "0", "0">>
AccentFirst == <<EAcute, "0", "0", "0", "0">>

\* str::split(','): the pieces between the commas (one piece for a string without commas)
RECURSIVE SplitComma(_, _)
SplitComma(s, piece) ==
    IF s = <<>> THEN <<piece>>
    ELSE IF Head(s) = "," THEN <<piece>> \o SplitComma(Tail(s), <<>>)
    ELSE SplitComma(Tail(s), Append(piece, Head(s)))

RECURSIVE TrimEnd(_)
TrimEnd(s) ==
    IF s # <<>> /\ s[Len(s)] = " " THEN TrimEnd(SubSeq(s, 1, Len(s) - 1)) ELSE s

\* str::trim
Trim(s) == TrimEnd(TrimStartMatches(s, " "))

\* build_gradient_from_color, lines 486-492: the entries are parsed in order up
\* to the first one that fails, with an error or a panic
CollectColors(parsed) ==
    IF \E i \in 1..Len(parsed) : ~parsed[i].ok
    THEN IF \E i \in 1..Len(parsed) : parsed[i] = Panic /\ \A j \in 1..(i - 1) : parsed[j].ok
         THEN Panic ELSE Err
    ELSE [ok |-> TRUE, colors |-> [i \in 1..Len(parsed) |-> parsed[i].rgb]]

ParseEntries(hex_colors) == [i \in 1..Len(hex_colors) |-> FromHex(Trim(hex_colors[i]))]

ParseColors(color_str) == CollectColors(ParseEntries(SplitComma(color_str, <<>>)))

\* the control stops without the two closing stops of the first color
RECURSIVE ControlStopsUnclosed(_, _)
ControlStopsUnclosed(rgb_colors, i) ==
    LET n == Len(rgb_colors)
        color == rgb_colors[i + 1]
        plateau_start == 10 * i + 1
        plateau_end == 10 * (i + 1) - 1
        first == IF i = 0 THEN <<[color |-> color, num |-> 0, den |-> 10 * n]>>
                 ELSE <<[color |-> color, num |-> plateau_start, den |-> 10 * n]>>
        second == IF i < n - 1 THEN <<[color |-> color, num |-> plateau_end, den |-> 10 * n]>>
                  ELSE <<>>
    IN IF i >= n THEN <<>>
       ELSE first \o second \o ControlStopsUnclosed(rgb_colors, i + 1)

\* The control stops of the continuous curve, lines 495-539: each stop is a
\* color at a domain value num/(10*n).
RECURSIVE ControlStops(_, _)
ControlStops(rgb_colors, i) ==
    LET n == Len(rgb_colors)
        color == rgb_colors[i + 1]
        plateau_start == 10 * i + 1
        plateau_end == 10 * (i + 1) - 1
        first == IF i = 0 THEN <<[color |-> color, num |-> 0, den |-> 10 * n]>>
                 ELSE <<[color |-> color, num |-> plateau_start, den |-> 10 * n]>>
        second == IF i < n - 1 THEN <<[color |-> color, num |-> plateau_end, den |-> 10 * n]>>
                  ELSE <<>>
    IN IF i >= n
       THEN <<[color |-> rgb_colors[1], num |-> 10 * n - 1, den |-> 10 * n],
              [color |-> rgb_colors[1], num |-> 10 * n, den |-> 10 * n]>>
       ELSE first \o second \o ControlStops(rgb_colors, i + 1)

CgInterpolation(interpolation_mode) ==
    CASE interpolation_mode = "Basis" -> "Basis"
      [] interpolation_mode = "CatmullRom" -> "CatmullRom"
      [] OTHER -> "Linear"

\* the continuous curve built for 2 or more colors whatever use_gradient says
BuildGradientFromColorAlways(color_str, use_gradient, interpolation_mode) ==
    LET parsed == ParseColors(color_str)
        rgb_colors == parsed.colors
    IN IF ~parsed.ok THEN parsed
       ELSE [ok |-> TRUE,
             gradient |-> IF Len(rgb_colors) >= 2
                          THEN Some([stops |-> ControlStops(rgb_colors, 0),
                                     interpolation |-> CgInterpolation(interpolation_mode)])
                          ELSE None,
             colors |-> rgb_colors,
             solid |-> IF rgb_colors # <<>> THEN rgb_colors[1] ELSE FromHex(Blue).rgb]

\* build_gradient_from_color: Err or Panic, or the (gradient, colors, solid color) triple
BuildGradientFromColor(color_str, use_gradient, interpolation_mode) ==
    LET parsed == ParseColors(color_str)
        rgb_colors == parsed.colors
    IN IF ~parsed.ok THEN parsed
       ELSE [ok |-> TRUE,
             gradient |-> IF Len(rgb_colors) >= 2 /\ use_gradient
                          THEN Some([stops |-> ControlStops(rgb_colors, 0),
                                     interpolation |-> CgInterpolation(interpolation_mode)])
                          ELSE None,
             colors |-> rgb_colors,
             solid |-> IF rgb_colors # <<>> THEN rgb_colors[1] ELSE FromHex(Blue).rgb]

(***************************************************************************)
(* main(): configuration and shared render state                           *)
(***************************************************************************)

\* str::to_lowercase on the direction and interpolation strings of the model
ToLowercase(s) ==
    CASE s = "MIRRORED" -> "mirrored"
      [] s = "Basis" -> "basis"
      [] OTHER -> s

InterpolationModeOf(interpolation) ==
    LET l == ToLowercase(interpolation)
    IN CASE l = "basis" -> "Basis"
         [] l \in {"catmullrom", "catmull-rom"} -> "CatmullRom"
         [] OTHER -> "Linear"

DirectionModeOf(direction) ==
    LET l == ToLowercase(direction)
    IN CASE l = "mirrored" -> "Mirrored"
         [] l = "opposing" -> "Opposing"
         [] l = "left" -> "Left"
         [] l = "right" -> "Right"
         [] OTHER -> "Mirrored"

\* config.max_gbps * 1000.0 * 1000.0, with max_gbps in millionths of a Gbps
MaxBandwidthKbps(max_gbps) == (max_gbps * 1000 * 1000) \div 1000000

\* config.max_gbps * 1000.0 * 1000.0 * (percent / 100.0)
TestKbps(max_gbps, percent) == (MaxBandwidthKbps(max_gbps) * percent) \div 100

\* the color main() installs for a direction: its own color, or the main color
EffectiveColor(own, color) == IF own = <<>> THEN color ELSE own

\* main(), lines 2148-2202: the SharedRenderState built from the loaded configuration
InitialSharedState(c) ==
    [current_rx_kbps |-> 0,
     current_tx_kbps |-> 0,
     start_rx_kbps |-> 0,
     start_tx_kbps |-> 0,
     last_bandwidth_update |-> None,
     animation_speed |-> c.animation_speed,
     scale_animation_speed |-> c.scale_animation_speed,
     tx_animation_direction |-> c.tx_animation_direction,
     rx_animation_direction |-> c.rx_animation_direction,
     interpolation_time_ms |-> c.interpolation_time_ms,
     max_bandwidth_kbps |-> MaxBandwidthKbps(c.max_gbps),
     tx_color |-> EffectiveColor(c.tx_color, c.color),
     rx_color |-> EffectiveColor(c.rx_color, c.color),
     use_gradient |-> c.use_gradient,
     interpolation_mode |-> InterpolationModeOf(c.interpolation),
     direction |-> DirectionModeOf(c.direction),
     swap |-> c.swap,
     fps |-> c.fps,
     total_leds |-> c.total_leds,
     rx_split_percent |-> c.rx_split_percent,
     strobe_on_max |-> c.strobe_on_max,
     strobe_rate_hz |-> c.strobe_rate_hz,
     strobe_duration_ms |-> c.strobe_duration_ms,
     strobe_color |-> c.strobe_color,
     generation |-> 0]

\* a generation counter one bit wide
BumpGenerationWrapping(s) == [s EXCEPT !.generation = (@ + 1) % 2]

\* state.generation += 1
BumpGeneration(s) == [s EXCEPT !.generation = @ + 1]

\* lines 2497-2541: tx and rx color
UpdateColors(s, c, n) ==
    LET color_changed == n.color # c.color
        tx_color_changed == n.tx_color # c.tx_color
        rx_color_changed == n.rx_color # c.rx_color
        s1 == IF tx_color_changed \/ (color_changed /\ n.tx_color = <<>>)
              THEN BumpGeneration([s EXCEPT !.tx_color = EffectiveColor(n.tx_color, n.color)])
              ELSE s
    IN IF rx_color_changed \/ (color_changed /\ n.rx_color = <<>>)
       THEN BumpGeneration([s1 EXCEPT !.rx_color = EffectiveColor(n.rx_color, n.color)])
       ELSE s1

\* the maximum written together with the current values capped to it
UpdateMaxBandwidthCapping(s, c, n) ==
    IF n.max_gbps # c.max_gbps
    THEN [s EXCEPT !.max_bandwidth_kbps = MaxBandwidthKbps(n.max_gbps),
                   !.current_rx_kbps = Min(@, MaxBandwidthKbps(n.max_gbps)),
                   !.current_tx_kbps = Min(@, MaxBandwidthKbps(n.max_gbps))]
    ELSE s

\* lines 2543-2553
UpdateMaxBandwidth(s, c, n) ==
    IF n.max_gbps # c.max_gbps
    THEN [s EXCEPT !.max_bandwidth_kbps = MaxBandwidthKbps(n.max_gbps)]
    ELSE s

\* lines 2555-2569
UpdateDirection(s, c, n) ==
    IF n.direction # c.direction
    THEN BumpGeneration([s EXCEPT !.direction = DirectionModeOf(n.direction)])
    ELSE s

\* lines 2571-2582
UpdateSwap(s, c, n) ==
    IF n.swap # c.swap THEN BumpGeneration([s EXCEPT !.swap = n.swap]) ELSE s

\* lines 2584-2608: split percentage and strobe_on_max
UpdateSplitAndStrobeFlag(s, c, n) ==
    LET s1 == IF n.rx_split_percent # c.rx_split_percent
              THEN [s EXCEPT !.rx_split_percent = n.rx_split_percent]
              ELSE s
    IN IF n.strobe_on_max # c.strobe_on_max
       THEN [s1 EXCEPT !.strobe_on_max = n.strobe_on_max]
       ELSE s1

\* 1000.0 / strobe_rate_hz, in thousandths of a millisecond
MaxStrobeDuration(strobe_rate_hz) == 1000000 \div strobe_rate_hz

\* lines 2610-2627
UpdateStrobeRate(s, c, n) ==
    IF n.strobe_rate_hz # c.strobe_rate_hz
    THEN LET s1 == [s EXCEPT !.strobe_rate_hz = n.strobe_rate_hz]
         IN IF n.strobe_rate_hz > 0
               /\ s1.strobe_duration_ms > MaxStrobeDuration(n.strobe_rate_hz)
            THEN [s1 EXCEPT !.strobe_duration_ms = MaxStrobeDuration(n.strobe_rate_hz)]
            ELSE s1
    ELSE s

\* lines 2629-2639
UpdateStrobeDuration(s, c, n) ==
    IF n.strobe_duration_ms # c.strobe_duration_ms
    THEN [s EXCEPT !.strobe_duration_ms = n.strobe_duration_ms]
    ELSE s

\* lines 2641-2715: strobe color, animation speed, scaling, animation directions,
\* interpolation time
UpdateAnimation(s, c, n) ==
    LET s1 == IF n.strobe_color # c.strobe_color
              THEN [s EXCEPT !.strobe_color = n.strobe_color] ELSE s
        s2 == IF n.animation_speed # c.animation_speed
              THEN [s1 EXCEPT !.animation_speed = n.animation_speed] ELSE s1
        s3 == IF n.scale_animation_speed # c.scale_animation_speed
              THEN [s2 EXCEPT !.scale_animation_speed = n.scale_animation_speed] ELSE s2
        s4 == IF n.tx_animation_direction # c.tx_animation_direction
              THEN [s3 EXCEPT !.tx_animation_direction = n.tx_animation_direction] ELSE s3
        s5 == IF n.rx_animation_direction # c.rx_animation_direction
              THEN [s4 EXCEPT !.rx_animation_direction = n.rx_animation_direction] ELSE s4
    IN IF n.interpolation_time_ms # c.interpolation_time_ms
       THEN [s5 EXCEPT !.interpolation_time_ms = n.interpolation_time_ms]
       ELSE s5

\* lines 2717-2733
UpdateInterpolation(s, c, n) ==
    IF n.interpolation # c.interpolation
    THEN BumpGeneration([s EXCEPT !.interpolation_mode = InterpolationModeOf(n.interpolation)])
    ELSE s

\* the gradient flag written without the generation bump
UpdateUseGradientNoBump(s, c, n) ==
    IF n.use_gradient # c.use_gradient THEN [s EXCEPT !.use_gradient = n.use_gradient] ELSE s

\* lines 2735-2750
UpdateUseGradient(s, c, n) ==
    IF n.use_gradient # c.use_gradient
    THEN BumpGeneration([s EXCEPT !.use_gradient = n.use_gradient])
    ELSE s

\* fps and total_leds written with a generation bump for fps
UpdateFpsAndLedsBumping(s, c, n) ==
    LET s1 == IF n.fps # c.fps THEN [s EXCEPT !.fps = n.fps, !.generation = @ + 1] ELSE s
    IN IF n.total_leds # c.total_leds THEN [s1 EXCEPT !.total_leds = n.total_leds] ELSE s1

\* lines 2752-2766: fps and total_leds
UpdateFpsAndLeds(s, c, n) ==
    LET s1 == IF n.fps # c.fps THEN [s EXCEPT !.fps = n.fps] ELSE s
    IN IF n.total_leds # c.total_leds THEN [s1 EXCEPT !.total_leds = n.total_leds] ELSE s1

\* lines 2493-2767: the whole critical section of a configuration update
ApplyConfig(s, c, n) ==
    UpdateFpsAndLeds(
      UpdateUseGradient(
        UpdateInterpolation(
          UpdateAnimation(
            UpdateStrobeDuration(
              UpdateStrobeRate(
                UpdateSplitAndStrobeFlag(
                  UpdateSwap(
                    UpdateDirection(
                      UpdateMaxBandwidth(
                        UpdateColors(s, c, n), c, n), c, n), c, n), c, n), c, n), c, n),
            c, n), c, n), c, n), c, n)

\* lines 2779-2782
TestModeChanged(c, n) ==
    \/ n.test_tx # c.test_tx
    \/ n.test_rx # c.test_rx
    \/ n.test_tx_percent # c.test_tx_percent
    \/ n.test_rx_percent # c.test_rx_percent

\* lines 2798-2810: the critical section of a test-mode change
ApplyTestMode(s, n, t) ==
    LET s1 == IF n.test_rx
              THEN [s EXCEPT !.start_rx_kbps = s.current_rx_kbps,
                             !.current_rx_kbps = TestKbps(n.max_gbps, n.test_rx_percent),
                             !.last_bandwidth_update = t]
              ELSE s
    IN IF n.test_tx
       THEN [s1 EXCEPT !.start_tx_kbps = s1.current_tx_kbps,
                       !.current_tx_kbps = TestKbps(n.max_gbps, n.test_tx_percent),
                       !.last_bandwidth_update = t]
       ELSE s1

\* lines 2389-2403: test-mode values installed before the main loop starts
ApplyTestModeInit(s, c, t) ==
    LET s1 == IF c.test_rx
              THEN [s EXCEPT !.current_rx_kbps = TestKbps(c.max_gbps, c.test_rx_percent),
                             !.start_rx_kbps = TestKbps(c.max_gbps, c.test_rx_percent),
                             !.last_bandwidth_update = t]
              ELSE s
    IN IF c.test_tx
       THEN [s1 EXCEPT !.current_tx_kbps = TestKbps(c.max_gbps, c.test_tx_percent),
                       !.start_tx_kbps = TestKbps(c.max_gbps, c.test_tx_percent),
                       !.last_bandwidth_update = t]
       ELSE s1

\* a sample applied without moving the interpolation start
ApplySampleKeepingStart(s, c, rx, tx, t) ==
    LET rx_kbps == IF c.test_rx THEN TestKbps(c.max_gbps, c.test_rx_percent) ELSE rx
        tx_kbps == IF c.test_tx THEN TestKbps(c.max_gbps, c.test_tx_percent) ELSE tx
    IN [s EXCEPT !.current_rx_kbps = rx_kbps,
                 !.current_tx_kbps = tx_kbps,
                 !.last_bandwidth_update = t]

\* lines 2436-2459: a parsed bandwidth sample, overridden by the test values
ApplySample(s, c, rx, tx, t) ==
    LET rx_kbps == IF c.test_rx THEN TestKbps(c.max_gbps, c.test_rx_percent) ELSE rx
        tx_kbps == IF c.test_tx THEN TestKbps(c.max_gbps, c.test_tx_percent) ELSE tx
    IN [s EXCEPT !.start_rx_kbps = s.current_rx_kbps,
                 !.start_tx_kbps = s.current_tx_kbps,
                 !.current_rx_kbps = rx_kbps,
                 !.current_tx_kbps = tx_kbps,
                 !.last_bandwidth_update = t]

(***************************************************************************)
(* Renderer: the arithmetic of one render tick                             *)
(***************************************************************************)

\* The denominator of the animation offsets: offsets are multiples of
\* 1 / (ticks per second * leds_per_direction), for leds_per_direction in {1, 2, 3}.
OffsetDen == 10000000 * 6

\* f64 `as usize` / `as u128` of the quotient n/d (d # 0): truncated, negatives give 0
TruncToUnsigned(n, d) ==
    IF d > 0 THEN (IF n <= 0 THEN 0 ELSE n \div d)
    ELSE (IF n >= 0 THEN 0 ELSE (-n) \div (-d))

\* render_frame, lines 722-724: the interpolation factor t as a fraction num/den,
\* den > 0, `elapsed` ticks after the last update.  elapsed_ms / 0.0 is inf or NaN,
\* and both give 1.0 under min(1.0).
InterpolationFactor(elapsed, interpolation_time_ms) ==
    LET full == interpolation_time_ms * 10000
    IN IF full = 0 \/ (full > 0 /\ elapsed >= full) THEN [num |-> 1, den |-> 1]
       ELSE IF full > 0 THEN [num |-> elapsed, den |-> full]
       ELSE [num |-> -elapsed, den |-> -full]

\* render_frame, lines 721-734: the displayed bandwidth as a fraction num/den, den > 0.
\* t = min(elapsed_ms / interpolation_time_ms, 1.0); a zero interpolation time gives
\* t = 1 (inf or NaN under min), a negative one gives a negative t.
InterpolatedKbps(start, current, last_update, interpolation_time_ms, clock) ==
    IF ~IsSome(last_update) THEN [num |-> current, den |-> 1]
    ELSE LET elapsed == clock - Unwrap(last_update)
             full == interpolation_time_ms * 10000
         IN IF full = 0 \/ (full > 0 /\ elapsed >= full) THEN [num |-> current, den |-> 1]
            ELSE IF full > 0
                 THEN [num |-> start * full + (current - start) * elapsed, den |-> full]
                 ELSE [num |-> -(start * full + (current - start) * elapsed), den |-> -full]

\* calculate_leds without its final min
CalculateLedsUncapped(bandwidth_kbps, max_bandwidth_kbps, leds_per_direction) ==
    IF max_bandwidth_kbps = 0
    THEN (IF bandwidth_kbps.num > 0 THEN leds_per_direction ELSE 0)
    ELSE TruncToUnsigned(bandwidth_kbps.num * leds_per_direction,
                         bandwidth_kbps.den * max_bandwidth_kbps)

\* Renderer::calculate_leds, for a bandwidth num/den
CalculateLeds(bandwidth_kbps, max_bandwidth_kbps, leds_per_direction) ==
    IF max_bandwidth_kbps = 0
    THEN (IF bandwidth_kbps.num > 0 THEN leds_per_direction ELSE 0)
    ELSE Min(TruncToUnsigned(bandwidth_kbps.num * leds_per_direction,
                             bandwidth_kbps.den * max_bandwidth_kbps),
             leds_per_direction)

\* f64::clamp
Clamp(x, lo, hi) == IF x < lo THEN lo ELSE IF x > hi THEN hi ELSE x

\* the rx budget rounded to the nearest integer
RxLedsAvailableRounded(total_leds, rx_split_percent) ==
    (2 * total_leds * Clamp(rx_split_percent, 0, 100) + 100) \div 200

\* render_frame, lines 745 and 756: the rx budget
RxLedsAvailable(total_leds, rx_split_percent) ==
    TruncToUnsigned(total_leds * Clamp(rx_split_percent, 0, 100), 100)

\* render_frame, line 757: the tx budget
TxLedsAvailable(total_leds, rx_split_percent) ==
    total_leds - RxLedsAvailable(total_leds, rx_split_percent)

\* f64::round of n/d for n >= 0, d > 0
RoundFraction(n, d) == (2 * n + d) \div (2 * d)

\* Renderer::calculate_effective_speed times fps (the `leds_per_second` of lines
\* 794 and 800), for fps > 0 and max_bandwidth_kbps > 0: with scaling the speed is
\* animation_speed * round(utilization * fps) / fps.
LedsPerSecond(kbps, s) ==
    IF s.scale_animation_speed
    THEN LET n == Clamp(kbps.num, 0, kbps.den * s.max_bandwidth_kbps)
         IN s.animation_speed * RoundFraction(n * s.fps, kbps.den * s.max_bandwidth_kbps)
    ELSE s.animation_speed * s.fps

\* the offset advanced without the remainder by 1.0
AdvanceOffsetUnwrapped(offset, leds_per_second, delta_ticks, leds_per_direction) ==
    IF leds_per_second > 0
    THEN offset + leds_per_second * delta_ticks * (6 \div leds_per_direction)
    ELSE offset

\* render_frame, lines 793-803: the offset after the tick, over OffsetDen
AdvanceOffset(offset, leds_per_second, delta_ticks, leds_per_direction) ==
    IF leds_per_second > 0
    THEN (offset + leds_per_second * delta_ticks * (6 \div leds_per_direction)) % OffsetDen
    ELSE offset

\* every direction mode laid out as Mirrored
CalculateLedPositionsAllMirrored(tx_leds, rx_leds, direction, swap, total_leds, leds_per_direction) ==
    LET first_half_pos == [i \in 1..(IF swap THEN tx_leds ELSE rx_leds) |-> leds_per_direction - i]
        second_half_pos == [i \in 1..(IF swap THEN rx_leds ELSE tx_leds) |-> leds_per_direction + i - 1]
    IN IF swap
       THEN [tx |-> first_half_pos, rx |-> second_half_pos]
       ELSE [tx |-> second_half_pos, rx |-> first_half_pos]

\* the pair returned in physical order (second half, first half) whatever swap is
CalculateLedPositionsUnswapped(tx_leds, rx_leds, direction, swap, total_leds, leds_per_direction) ==
    LET half == leds_per_direction
        first_half_leds == IF swap THEN tx_leds ELSE rx_leds
        second_half_leds == IF swap THEN rx_leds ELSE tx_leds
        first_half_pos == IF direction \in {"Mirrored", "Left"}
                          THEN [i \in 1..first_half_leds |-> half - 1 - (i - 1)]
                          ELSE [i \in 1..first_half_leds |-> i - 1]
        second_half_pos == IF direction \in {"Mirrored", "Right"}
                           THEN [i \in 1..second_half_leds |-> half + (i - 1)]
                           ELSE [i \in 1..second_half_leds |-> total_leds - 1 - (i - 1)]
    IN [tx |-> second_half_pos, rx |-> first_half_pos]

\* Renderer::calculate_led_positions.  usize subtraction that underflows gives a
\* negative number here: the checked build panics there, the unchecked build
\* wraps to an index far outside the frame.
CalculateLedPositions(tx_leds, rx_leds, direction, swap, total_leds, leds_per_direction) ==
    LET half == leds_per_direction
        first_half_leds == IF swap THEN tx_leds ELSE rx_leds
        second_half_leds == IF swap THEN rx_leds ELSE tx_leds
        down_from_half == [i \in 1..first_half_leds |-> half - 1 - (i - 1)]
        up_from_zero == [i \in 1..first_half_leds |-> i - 1]
        up_from_half == [i \in 1..second_half_leds |-> half + (i - 1)]
        down_from_end == [i \in 1..second_half_leds |-> total_leds - 1 - (i - 1)]
        first_half_pos == CASE direction = "Mirrored" -> down_from_half
                            [] direction = "Opposing" -> up_from_zero
                            [] direction = "Left" -> down_from_half
                            [] direction = "Right" -> up_from_zero
        second_half_pos == CASE direction = "Mirrored" -> up_from_half
                             [] direction = "Opposing" -> down_from_end
                             [] direction = "Left" -> down_from_end
                             [] direction = "Right" -> up_from_half
    IN IF swap
       THEN [tx |-> first_half_pos, rx |-> second_half_pos]
       ELSE [tx |-> second_half_pos, rx |-> first_half_pos]

\* render_frame, lines 768-790: is the strobe phase on at wall-clock millisecond
\* `elapsed_millis`; cycle_ms is positive
StrobePhaseActive(elapsed_millis, strobe_rate_hz, strobe_duration_ms) ==
    LET cycle_ms == TruncToUnsigned(1000, strobe_rate_hz)
        clamped_duration == Min(TruncToUnsigned(strobe_duration_ms, 1000), cycle_ms)
        position_in_cycle == elapsed_millis % cycle_ms
    IN position_in_cycle >= cycle_ms - clamped_duration

\* render_frame, lines 764-790, for one direction lighting `leds` of its
\* `leds_available`: whether the direction strobes, or the tick panics on the
\* remainder by a zero cycle_ms
StrobeActive(strobe_on_max, strobe_rate_hz, strobe_duration_ms, leds, leds_available, elapsed_millis) ==
    IF ~(strobe_on_max /\ strobe_rate_hz > 0) THEN [panics |-> FALSE, active |-> FALSE]
    ELSE IF TruncToUnsigned(1000, strobe_rate_hz) = 0 THEN [panics |-> TRUE, active |-> FALSE]
    ELSE [panics |-> FALSE,
          active |-> /\ leds >= leds_available
                     /\ StrobePhaseActive(elapsed_millis, strobe_rate_hz, strobe_duration_ms)]

\* One LED of the frame: where its three bytes come from and what they are.  A
\* sample of the continuous curve is kept as the curve and the position sampled.
Pixel(src, rgb, curve, at) == [src |-> src, rgb |-> rgb, curve |-> curve, at |-> at]

\* a buffer that is not zeroed: an LED no position paints keeps lit bytes
StalePixel == Pixel("zero", <<255, 255, 255>>, None, None)

ZeroPixel == Pixel("zero", <<0, 0, 0>>, None, None)

\* the continuous curve sampled ahead of the palette pattern
PaintPixelGradientFirst(i, led_pos, num_leds, strobe_active, strobe_color, use_gradient, colors, gradient, solid_color, animation_direction, offset, leds_per_direction) ==
    IF strobe_active THEN Pixel("strobe", strobe_color, None, None)
    ELSE IF IsSome(gradient)
    THEN LET pos_ratio == (led_pos % leds_per_direction) * (OffsetDen \div leds_per_direction)
             animated_pos == IF animation_direction = "right"
                             THEN (OffsetDen + pos_ratio - offset) % OffsetDen
                             ELSE (pos_ratio + offset) % OffsetDen
         IN Pixel("gradient", <<0, 0, 0>>, gradient, Some(animated_pos))
    ELSE IF ~use_gradient /\ Len(colors) >= 2 /\ num_leds > 0
    THEN LET shift == IF animation_direction = "right" THEN -(offset * num_leds)
                      ELSE offset * num_leds
             pattern_pos == (i * OffsetDen + shift) % (num_leds * OffsetDen)
             segment_idx == ((pattern_pos * Len(colors)) \div (num_leds * OffsetDen))
                            % Len(colors)
         IN Pixel("palette", colors[segment_idx + 1], None, None)
    ELSE Pixel("solid", solid_color, None, None)

\* render_frame, lines 811-862 (tx) and 864-915 (rx): the pixel painted at the
\* i-th position (from 0) `led_pos` of a direction with `num_leds` positions
PaintPixel(i, led_pos, num_leds, strobe_active, strobe_color, use_gradient, colors, gradient, solid_color, animation_direction, offset, leds_per_direction) ==
    IF strobe_active THEN Pixel("strobe", strobe_color, None, None)
    ELSE IF ~use_gradient /\ Len(colors) >= 2 /\ num_leds > 0
    THEN LET shift == IF animation_direction = "right" THEN -(offset * num_leds)
                      ELSE offset * num_leds
             pattern_pos == (i * OffsetDen + shift) % (num_leds * OffsetDen)
             segment_idx == ((pattern_pos * Len(colors)) \div (num_leds * OffsetDen))
                            % Len(colors)
         IN Pixel("palette", colors[segment_idx + 1], None, None)
    ELSE IF IsSome(gradient)
    THEN LET pos_ratio == (led_pos % leds_per_direction) * (OffsetDen \div leds_per_direction)
             animated_pos == IF animation_direction = "right"
                             THEN (OffsetDen + pos_ratio - offset) % OffsetDen
                             ELSE (pos_ratio + offset) % OffsetDen
         IN Pixel("gradient", <<0, 0, 0>>, gradient, Some(animated_pos))
    ELSE Pixel("solid", solid_color, None, None)

\* the index in `positions` of the last occurrence of `led`, or 0
LastIndexOf(positions, led) ==
    LET hits == {i \in 1..Len(positions) : positions[i] = led}
    IN IF hits = {} THEN 0 ELSE CHOOSE i \in hits : \A j \in hits : j <= i

\* render_frame, lines 718-915: everything one tick computes from the values it
\* copies out of the shared state `s` under the lock, the renderer's cache `c`
\* and offsets, the tick's delta and the clocks.  `panics` tells that the tick
\* aborts the render thread: a zero strobe cycle (remainder by zero), or an LED
\* position outside the frame (subtraction overflow or index out of bounds), or
\* a strobe color sliced inside a character.
RenderTick(s, c, tx_offset, rx_offset, delta_ticks, clock) ==
    LET rx_kbps == InterpolatedKbps(s.start_rx_kbps, s.current_rx_kbps,
                                    s.last_bandwidth_update, s.interpolation_time_ms, clock)
        tx_kbps == InterpolatedKbps(s.start_tx_kbps, s.current_tx_kbps,
                                    s.last_bandwidth_update, s.interpolation_time_ms, clock)
        total_leds == s.total_leds
        from_hex == FromHex(s.strobe_color)
        strobe_panics == ~from_hex.ok /\ from_hex.panics
        strobe_color == IF from_hex.ok THEN from_hex.rgb ELSE <<0, 0, 0>>
        rx_leds_available == RxLedsAvailable(total_leds, s.rx_split_percent)
        tx_leds_available == total_leds - rx_leds_available
        leds_per_direction == total_leds \div 2
        rx_leds == CalculateLeds(rx_kbps, s.max_bandwidth_kbps, rx_leds_available)
        tx_leds == CalculateLeds(tx_kbps, s.max_bandwidth_kbps, tx_leds_available)
        strobing == s.strobe_on_max /\ s.strobe_rate_hz > 0
        zero_cycle == strobing /\ TruncToUnsigned(1000, s.strobe_rate_hz) = 0
        phase == strobing /\ ~zero_cycle
                 /\ StrobePhaseActive(clock \div 10000, s.strobe_rate_hz, s.strobe_duration_ms)
        rx_strobe_active == phase /\ rx_leds >= rx_leds_available
        tx_strobe_active == phase /\ tx_leds >= tx_leds_available
        new_tx_offset == AdvanceOffset(tx_offset, LedsPerSecond(tx_kbps, s), delta_ticks,
                                       leds_per_direction)
        new_rx_offset == AdvanceOffset(rx_offset, LedsPerSecond(rx_kbps, s), delta_ticks,
                                       leds_per_direction)
        positions == CalculateLedPositions(tx_leds, rx_leds, s.direction, s.swap,
                                           total_leds, leds_per_direction)
        outside(pos) == \E i \in 1..Len(pos) : pos[i] < 0 \/ pos[i] >= total_leds
        tx_pixel(i) == PaintPixel(i - 1, positions.tx[i], Len(positions.tx),
                                  tx_strobe_active, strobe_color, s.use_gradient,
                                  c.tx_colors, c.tx_gradient, c.tx_solid_color,
                                  s.tx_animation_direction, new_tx_offset, leds_per_direction)
        rx_pixel(i) == PaintPixel(i - 1, positions.rx[i], Len(positions.rx),
                                  rx_strobe_active, strobe_color, s.use_gradient,
                                  c.rx_colors, c.rx_gradient, c.rx_solid_color,
                                  s.rx_animation_direction, new_rx_offset, leds_per_direction)
        frame == [led \in 1..total_leds |->
                    LET r == LastIndexOf(positions.rx, led - 1)
                        x == LastIndexOf(positions.tx, led - 1)
                    IN IF r > 0 THEN rx_pixel(r)
                       ELSE IF x > 0 THEN tx_pixel(x)
                       ELSE ZeroPixel]
    IN [panics |-> strobe_panics \/ zero_cycle \/ outside(positions.tx)
                      \/ outside(positions.rx),
        tx_offset |-> new_tx_offset,
        rx_offset |-> new_rx_offset,
        tx_positions |-> positions.tx,
        rx_positions |-> positions.rx,
        frame |-> frame]

\* Renderer::run, lines 940-941: (1_000_000.0 / fps) as u64 microseconds, in ticks
FrameDuration(f) == TruncToUnsigned(1000000, f) * 10

\* Renderer::run, line 946; a zero fps gives a frame duration no elapsed time reaches
FrameDue(elapsed, f) == f # 0 /\ elapsed >= FrameDuration(f)

\* Renderer::new, lines 597-618, and the rebuild of lines 626-637: the cache
\* built from the shared state, or Err
BuildCache(s) ==
    LET tx == BuildGradientFromColor(s.tx_color, s.use_gradient, s.interpolation_mode)
        rx == BuildGradientFromColor(s.rx_color, s.use_gradient, s.interpolation_mode)
    IN IF ~tx.ok THEN tx
       ELSE IF ~rx.ok THEN rx
       ELSE [ok |-> TRUE,
             tx_gradient |-> tx.gradient, tx_colors |-> tx.colors,
             tx_solid_color |-> tx.solid,
             rx_gradient |-> rx.gradient, rx_colors |-> rx.colors,
             rx_solid_color |-> rx.solid]

\* a rebuild only when the generation is ahead by more than one
NeedsRebuildLate(s, cached_generation) == s.generation > cached_generation + 1

\* Renderer::rebuild_gradients_if_needed, line 625
NeedsRebuild(s, cached_generation) == s.generation # cached_generation

\* the nominal frame period passed as the delta
TickDeltaNominal(elapsed, f) == FrameDuration(f)

\* Renderer::run, line 947: delta_seconds is the elapsed time
TickDelta(elapsed, f) == elapsed

\* the frame handed over in two halves
EmitFrameInHalves(frame) ==
    <<[buffer |-> SubSeq(frame, 1, Len(frame) \div 2), offset |-> 0],
      [buffer |-> SubSeq(frame, Len(frame) \div 2 + 1, Len(frame)),
       offset |-> 3 * (Len(frame) \div 2)]>>

\* render_frame, line 918: self.ddp_conn.write_offset(&frame, 0)
EmitFrame(frame) == <<[buffer |-> frame, offset |-> 0]>>

\* the shutdown flag never seen
ShutdownObservedNever(flag) == FALSE

\* Renderer::run, line 929: self.shutdown.load(Ordering::Relaxed)
ShutdownObserved(flag) == flag

(***************************************************************************)
(* Bounds and inputs                                                       *)
(***************************************************************************)

\* configuration updates are applied while generation stays within this bound
MaxGeneration == 2

\* the clock stops advancing beyond this many ticks (3 sleeps of 16.6665 ms)
MaxClock == 499995

\* thread::sleep(Duration::from_micros(100)) returns after at least 100 us; the
\* model lets it return after 16.6665 ms, half a microsecond past the 16666 us
\* of (1_000_000.0 / 60.0) as u64
SleepDurations == {166665}

\* (rx_kbps, tx_kbps) samples delivered by the bandwidth feed
Samples == {<<8, 4>>}

\* A configuration file with small numbers: 8 kbps maximum (max_gbps = 0.000008),
\* 4 LEDs, one color.
BaseConfig ==
    [max_gbps |-> 8,
     color |-> Blue,
     tx_color |-> Empty,
     rx_color |-> Empty,
     direction |-> "mirrored",
     swap |-> FALSE,
     rx_split_percent |-> 50,
     strobe_on_max |-> FALSE,
     strobe_rate_hz |-> 4,
     strobe_duration_ms |-> 166000,
     strobe_color |-> Black,
     animation_speed |-> 1,
     scale_animation_speed |-> FALSE,
     tx_animation_direction |-> "right",
     rx_animation_direction |-> "left",
     interpolation_time_ms |-> 1000,
     total_leds |-> 4,
     use_gradient |-> TRUE,
     interpolation |-> "linear",
     fps |-> 60,
     test_tx |-> FALSE,
     test_rx |-> FALSE,
     test_tx_percent |-> 100,
     test_rx_percent |-> 100]

\* the values a hand-edited or web-saved configuration file gives each field
FieldValues ==
    [max_gbps |-> {4},
     color |-> {RedGreen, NotHex},
     tx_color |-> {Red, RedBad},
     rx_color |-> {RedGreen},
     direction |-> {"opposing", "MIRRORED", "left", "right"},
     swap |-> {TRUE},
     rx_split_percent |-> {75, 150},
     strobe_on_max |-> {TRUE},
     strobe_rate_hz |-> {8, 0},
     strobe_duration_ms |-> {400000, 100000},
     strobe_color |-> {White, Short},
     animation_speed |-> {0},
     scale_animation_speed |-> {TRUE},
     tx_animation_direction |-> {"left"},
     rx_animation_direction |-> {"right"},
     interpolation_time_ms |-> {20},
     total_leds |-> {6},
     use_gradient |-> {FALSE},
     interpolation |-> {"basis", "Basis", "catmull-rom"},
     fps |-> {30},
     test_tx |-> {TRUE},
     test_rx |-> {TRUE},
     test_tx_percent |-> {50},
     test_rx_percent |-> {50}]

\* every configuration that differs from BaseConfig in at most one field
EditedConfigs ==
    {BaseConfig} \cup
    {[BaseConfig EXCEPT ![f] = v] : <<f, v>> \in
        UNION {{<<g, w>> : w \in FieldValues[g]} : g \in DOMAIN FieldValues}}

\* the configurations the full system is explored with
ConfigFiles ==
    {BaseConfig,
     [BaseConfig EXCEPT !.fps = 30],
     [BaseConfig EXCEPT !.tx_color = RedGreen],
     [BaseConfig EXCEPT !.tx_color = RedBad],
     [BaseConfig EXCEPT !.rx_split_percent = 75]}

\* main() reaches its loop only when Renderer::new succeeded (lines 2227-2235)
CanStart(c) == BuildCache(InitialSharedState(c)).ok

(***************************************************************************)
(* The update path: main()                                                 *)
(***************************************************************************)

\* lines 2388-2403
TestModeInit ==
    /\ main_pc = "init"
    /\ shared' = ApplyTestModeInit(shared, config, Some(now))
    /\ main_pc' = "loop"
    /\ UNCHANGED <<config, new_config, shutdown>>
    /\ UNCHANGED render_vars
    /\ UNCHANGED call_vars

\* lines 2410-2429: Ctrl+C sets the shutdown flag and main leaves its loop
CtrlC ==
    /\ main_pc = "loop"
    /\ shutdown' = TRUE
    /\ main_pc' = "done"
    /\ UNCHANGED <<config, new_config, shared>>
    /\ UNCHANGED render_vars
    /\ UNCHANGED call_vars

\* lines 2431-2459
BandwidthSample(rx, tx) ==
    /\ main_pc = "loop"
    /\ shared' = ApplySample(shared, config, rx, tx, Some(now))
    /\ UNCHANGED <<config, new_config, main_pc, shutdown>>
    /\ UNCHANGED render_vars
    /\ UNCHANGED call_vars

\* lines 2490-2776: the first critical section of a configuration update; the
\* test-mode block, when there is one to run, takes the lock again
ConfigUpdate(n) ==
    /\ main_pc = "loop"
    /\ ApplyConfig(shared, config, n).generation <= MaxGeneration
    /\ shared' = ApplyConfig(shared, config, n)
    /\ IF TestModeChanged(config, n)
       THEN /\ new_config' = Some(n)
            /\ main_pc' = "test"
            /\ UNCHANGED config
       ELSE /\ config' = n
            /\ UNCHANGED <<new_config, main_pc>>
    /\ UNCHANGED shutdown
    /\ UNCHANGED render_vars
    /\ UNCHANGED call_vars

\* lines 2778-2847: the test-mode block of the configuration update in progress
TestModeUpdate ==
    /\ main_pc = "test"
    /\ shared' = ApplyTestMode(shared, Unwrap(new_config), Some(now))
    /\ config' = Unwrap(new_config)
    /\ new_config' = None
    /\ main_pc' = "loop"
    /\ UNCHANGED shutdown
    /\ UNCHANGED render_vars
    /\ UNCHANGED call_vars

(***************************************************************************)
(* The render thread: Renderer::run                                        *)
(***************************************************************************)

\* lines 928-931
RunPoll ==
    /\ pc = "poll"
    /\ pc' = IF ShutdownObserved(shutdown) THEN "exited" ELSE "fps"
    /\ UNCHANGED main_vars
    /\ UNCHANGED call_vars
    /\ UNCHANGED <<now, fps, last_frame, delta, cache, last_generation,
                   tx_animation_offset, rx_animation_offset,
                   sink_writes, writes_after_stop, delta_total, lock_work>>

\* lines 933-949: fps is read under the lock, then the frame is found due or not
RunPace ==
    /\ pc = "fps"
    /\ fps' = shared.fps
    /\ lock_work' = {"read"}
    /\ IF FrameDue(now - last_frame, shared.fps)
       THEN /\ delta' = TickDelta(now - last_frame, shared.fps)
            /\ last_frame' = now
            /\ delta_total' = delta_total + TickDelta(now - last_frame, shared.fps)
            /\ pc' = "cache"
       ELSE /\ pc' = "sleep"
            /\ UNCHANGED <<delta, last_frame, delta_total>>
    /\ UNCHANGED main_vars
    /\ UNCHANGED call_vars
    /\ UNCHANGED <<now, cache, last_generation, tx_animation_offset, rx_animation_offset,
                   sink_writes, writes_after_stop>>

\* Renderer::rebuild_gradients_if_needed, lines 622-640: the guard `state` lives to
\* the end of the function, so the gradients are built with the lock held
RebuildLockWork(s, cached_generation) ==
    {"read"} \cup (IF NeedsRebuild(s, cached_generation) THEN {"build_gradient"} ELSE {})

\* Renderer::render_frame, lines 718-750: between lock() and drop(state) the
\* bandwidth is interpolated and calculate_effective_speed is called on &state
RenderLockWork(s) ==
    {"read", "effective_speed"}
      \cup (IF IsSome(s.last_bandwidth_update) THEN {"interpolation"} ELSE {})

\* Renderer::rebuild_gradients_if_needed, called at line 715; an Err ends the tick
RebuildGradientsIfNeeded ==
    /\ pc = "cache"
    /\ lock_work' = RebuildLockWork(shared, last_generation)
    /\ IF NeedsRebuild(shared, last_generation)
       THEN IF BuildCache(shared).ok
            THEN /\ cache' = BuildCache(shared)
                 /\ last_generation' = shared.generation
                 /\ pc' = "render"
                 /\ UNCHANGED delta
            ELSE /\ pc' = IF BuildCache(shared).panics THEN "panicked" ELSE "sleep"
                 /\ delta' = 0
                 /\ UNCHANGED <<cache, last_generation>>
       ELSE /\ pc' = "render"
            /\ UNCHANGED <<cache, last_generation, delta>>
    /\ UNCHANGED main_vars
    /\ UNCHANGED call_vars
    /\ UNCHANGED <<now, fps, last_frame, tx_animation_offset, rx_animation_offset,
                   sink_writes, writes_after_stop, delta_total>>

\* Renderer::render_frame from line 718 on: the values are copied out under the
\* lock, the frame is painted and handed to the Frame Sink, whose write succeeds
\* or fails
RenderFrame(write_ok) ==
    /\ pc = "render"
    /\ lock_work' = RenderLockWork(shared)
    /\ LET tick == RenderTick(shared, cache, tx_animation_offset, rx_animation_offset,
                              delta, now)
       IN IF tick.panics
          THEN /\ pc' = "panicked"
               /\ UNCHANGED <<tx_animation_offset, rx_animation_offset,
                              sink_writes, writes_after_stop>>
          ELSE /\ tx_animation_offset' = tick.tx_offset
               /\ rx_animation_offset' = tick.rx_offset
               /\ pc' = "sleep"
               /\ IF write_ok
                  THEN /\ sink_writes' = EmitFrame(tick.frame)
                       /\ writes_after_stop' =
                              writes_after_stop + (IF shutdown THEN Len(EmitFrame(tick.frame)) ELSE 0)
                  ELSE UNCHANGED <<sink_writes, writes_after_stop>>
    /\ delta' = 0
    /\ UNCHANGED main_vars
    /\ UNCHANGED call_vars
    /\ UNCHANGED <<now, fps, last_frame, cache, last_generation, delta_total>>

\* line 955: thread::sleep; the clock advances while the thread sleeps
RunSleep(d) ==
    /\ pc = "sleep"
    /\ now + d <= MaxClock
    /\ now' = now + d
    /\ pc' = "poll"
    /\ fps' = 0
    /\ lock_work' = {}
    /\ UNCHANGED main_vars
    /\ UNCHANGED call_vars
    /\ UNCHANGED <<last_frame, delta, cache, last_generation,
                   tx_animation_offset, rx_animation_offset,
                   sink_writes, writes_after_stop, delta_total>>

(***************************************************************************)
(* Specifications                                                          *)
(***************************************************************************)

InitWith(configs, start) ==
    /\ config \in {c \in configs : CanStart(c)}
    /\ new_config = None
    /\ main_pc = start
    /\ shared = InitialSharedState(config)
    /\ shutdown = FALSE
    /\ now = 0
    /\ pc = "poll"
    /\ fps = 0
    /\ last_frame = 0
    /\ delta = 0
    /\ cache = BuildCache(InitialSharedState(config))
    /\ last_generation = InitialSharedState(config).generation
    /\ tx_animation_offset = 0
    /\ rx_animation_offset = 0
    /\ sink_writes = <<>>
    /\ writes_after_stop = 0
    /\ delta_total = 0
    /\ lock_work = {}

\* the whole program runs: no function is studied on its own
NoCall == call = None /\ result = None

\* none of ConfigFiles enables test mode: main() is in its loop with the shared
\* state as built
Init == InitWith(ConfigFiles, "loop") /\ NoCall

RenderThread ==
    \/ RunPoll
    \/ RunPace
    \/ RebuildGradientsIfNeeded
    \/ \E write_ok \in BOOLEAN : RenderFrame(write_ok)
    \/ \E d \in SleepDurations : RunSleep(d)

Next ==
    \/ CtrlC
    \/ \E s \in Samples : BandwidthSample(s[1], s[2])
    \/ \E n \in ConfigFiles : ConfigUpdate(n)
    \/ RenderThread

\* the whole system, explored with ConfigFiles
Spec == Init /\ [][Next]_vars

InitEdited == InitWith(EditedConfigs, "init") /\ NoCall

NextEdited ==
    \/ TestModeInit
    \/ CtrlC
    \/ \E s \in Samples : BandwidthSample(s[1], s[2])
    \/ \E n \in EditedConfigs : ConfigUpdate(n)
    \/ TestModeUpdate

\* the update path alone, explored with every configuration of EditedConfigs
SpecUpdates == InitEdited /\ [][NextEdited]_vars

\* Shutdown: main() with fps updates only, and a render thread that is scheduled
\* fairly
PacingConfigs == {BaseConfig, [BaseConfig EXCEPT !.fps = 30]}

InitShutdown == InitWith(PacingConfigs, "loop") /\ NoCall

NextShutdown ==
    \/ CtrlC
    \/ \E s \in Samples : BandwidthSample(s[1], s[2])
    \/ \E n \in PacingConfigs : ConfigUpdate(n)
    \/ RenderThread

SpecShutdown == InitShutdown /\ [][NextShutdown]_vars /\ WF_vars(RenderThread)

\* Samples: main() applies samples of three different values, with and without
\* the rx test override, while the renderer runs or does not get to run
SampleValues == {<<8, 4>>, <<2, 6>>, <<0, 0>>}

SampledConfigs == {BaseConfig, [BaseConfig EXCEPT !.test_rx = TRUE, !.test_rx_percent = 50]}

InitSamples == InitWith(SampledConfigs, "loop") /\ NoCall

NextSamples ==
    \/ \E s \in SampleValues : BandwidthSample(s[1], s[2])
    \/ RenderThread

SpecSamples == InitSamples /\ [][NextSamples]_vars

\* Colors that do not parse: a strobe that is on for the whole cycle once a
\* direction is at the maximum (reached 2 ms after a sample), with strobe colors
\* that parse, that are rejected and that are cut inside a character, and a tx
\* color that is rejected
StrobingConfig ==
    [BaseConfig EXCEPT !.strobe_on_max = TRUE, !.strobe_duration_ms = 400000,
                       !.interpolation_time_ms = 2]

UnparsedColorConfigs ==
    {[StrobingConfig EXCEPT !.strobe_color = c] : c \in {White, Short, Sliced}}
      \cup {[StrobingConfig EXCEPT !.strobe_color = White, !.tx_color = RedBad]}

InitUnparsed == InitWith(UnparsedColorConfigs, "loop") /\ NoCall

NextUnparsed ==
    \/ \E s \in Samples : BandwidthSample(s[1], s[2])
    \/ \E n \in UnparsedColorConfigs : ConfigUpdate(n)
    \/ RenderThread

SpecUnparsed == InitUnparsed /\ [][NextUnparsed]_vars

\* Rebuilds that fail: the colors are edited to a tx color that is rejected, to
\* an rx color that is rejected while the tx color parses, to a tx color cut
\* inside a character, and back to colors that parse
RedSliced == Red \o <<",">> \o Sliced

RebuildConfigs ==
    {BaseConfig,
     [BaseConfig EXCEPT !.tx_color = RedGreen],
     [BaseConfig EXCEPT !.tx_color = RedBad],
     [BaseConfig EXCEPT !.tx_color = RedGreen, !.rx_color = RedBad],
     [BaseConfig EXCEPT !.tx_color = RedSliced]}

InitRebuild == InitWith(RebuildConfigs, "loop") /\ NoCall

NextRebuild ==
    \/ \E n \in RebuildConfigs : ConfigUpdate(n)
    \/ RenderThread

SpecRebuild == InitRebuild /\ [][NextRebuild]_vars

\* Test mode switched while samples interpolate over 20 ms: the test override
\* of rx (at 50 percent) or of tx is turned on and off between samples and ticks
InterpolatingConfig == [BaseConfig EXCEPT !.interpolation_time_ms = 20]

TestModeConfigs ==
    {InterpolatingConfig,
     [InterpolatingConfig EXCEPT !.test_rx = TRUE, !.test_rx_percent = 50],
     [InterpolatingConfig EXCEPT !.test_tx = TRUE]}

InitTestMode == InitWith({InterpolatingConfig}, "loop") /\ NoCall

NextTestMode ==
    \/ \E s \in Samples : BandwidthSample(s[1], s[2])
    \/ \E n \in TestModeConfigs : ConfigUpdate(n)
    \/ TestModeUpdate
    \/ RenderThread

SpecTestMode == InitTestMode /\ [][NextTestMode]_vars

(***************************************************************************)
(* Functions of the renderer studied on their own: the program stands      *)
(* still, the arguments are drawn from bounded sets and the function is     *)
(* applied to them.                                                        *)
(***************************************************************************)

\* the program before its threads take a step
Idle == InitWith({BaseConfig}, "done")

StandsStill == UNCHANGED main_vars /\ UNCHANGED render_vars

\* calculate_leds: bandwidths 0..MaxBw against maxima 1..MaxMaxBw and budgets
\* 0..MaxAvail, and the scenario max = 1e7 kbps, avail = 600 in units of 10^4 kbps
MaxBw == 12
MaxMaxBw == 5
MaxAvail == 6

LedsInputs ==
    {[bw |-> b, max |-> m, avail |-> a] : b \in 0..MaxBw, m \in 1..MaxMaxBw, a \in 0..MaxAvail}
      \cup {[bw |-> b, max |-> 1000, avail |-> 600] : b \in {0, 250, 500, 999, 1000, 2000}}

InitLeds == Idle /\ call \in LedsInputs /\ result = None

CallCalculateLeds ==
    /\ result = None
    /\ result' = Some(CalculateLeds([num |-> call.bw, den |-> 1], call.max, call.avail))
    /\ UNCHANGED call
    /\ StandsStill

SpecLeds == InitLeds /\ [][CallCalculateLeds]_vars

\* the LED split of render_frame: strips of 0..MaxTotalLeds LEDs against split
\* percentages inside and outside 0..100
MaxTotalLeds == 12

SplitPercents == {-10, 0, 1, 10, 25, 33, 50, 66, 75, 90, 99, 100, 150}

SplitInputs ==
    {[total_leds |-> n, rx_split_percent |-> p] : n \in 0..MaxTotalLeds, p \in SplitPercents}

InitSplit == Idle /\ call \in SplitInputs /\ result = None

CallLedSplit ==
    /\ result = None
    /\ result' = Some([rx |-> RxLedsAvailable(call.total_leds, call.rx_split_percent),
                       tx |-> TxLedsAvailable(call.total_leds, call.rx_split_percent)])
    /\ UNCHANGED call
    /\ StandsStill

SpecSplit == InitSplit /\ [][CallLedSplit]_vars

\* calculate_led_positions as render_frame calls it (leds_per_direction is
\* total_leds / 2, line 758) on strips of 0..MaxStrip LEDs, with every lit count
\* up to the strip length, and on the default strip of 1200 LEDs (mirrored, not
\* swapped) with nothing, one LED and a full half lit
MaxStrip == 5

DirectionModes == {"Mirrored", "Opposing", "Left", "Right"}

PositionsInputs ==
    {[tx_leds |-> t, rx_leds |-> r, direction |-> d, swap |-> s, total_leds |-> n] :
        t \in 0..MaxStrip, r \in 0..MaxStrip, d \in DirectionModes, s \in BOOLEAN,
        n \in 0..MaxStrip}
      \cup {[tx_leds |-> t, rx_leds |-> r, direction |-> "Mirrored", swap |-> FALSE,
             total_leds |-> 1200] : t \in {0, 1, 600}, r \in {0, 1, 600}}

InitPositions ==
    /\ Idle
    /\ call \in {c \in PositionsInputs : c.tx_leds <= c.total_leds /\ c.rx_leds <= c.total_leds}
    /\ result = None

CallCalculateLedPositions ==
    /\ result = None
    /\ result' = Some(CalculateLedPositions(call.tx_leds, call.rx_leds, call.direction,
                                             call.swap, call.total_leds, call.total_leds \div 2))
    /\ UNCHANGED call
    /\ StandsStill

SpecPositions == InitPositions /\ [][CallCalculateLedPositions]_vars

\* the bandwidth interpolation of render_frame, for one direction: start and
\* current values, a last update at tick 0 or none, and the tick count of the
\* clock when the frame is rendered
MaxElapsed == 3

InterpolationInputs ==
    {[start |-> s, current |-> c, last_update |-> u, interpolation_time_ms |-> i,
      clock |-> e * 166665] :
        s \in {0, 4, 8}, c \in {0, 4, 8}, u \in {None, Some(0)},
        i \in {-1000, -20, 0, 20, 50, 1000}, e \in 0..MaxElapsed}

InitInterpolation == Idle /\ call \in InterpolationInputs /\ result = None

CallInterpolate ==
    /\ result = None
    /\ result' = Some([t |-> IF IsSome(call.last_update)
                             THEN Some(InterpolationFactor(call.clock - Unwrap(call.last_update),
                                                           call.interpolation_time_ms))
                             ELSE None,
                       kbps |-> InterpolatedKbps(call.start, call.current, call.last_update,
                                                 call.interpolation_time_ms, call.clock)])
    /\ UNCHANGED call
    /\ StandsStill

SpecInterpolation == InitInterpolation /\ [][CallInterpolate]_vars

\* the strobe resolution of render_frame for one direction, at wall-clock
\* milliseconds around the cycle boundaries of 3, 4 and 8 Hz
StrobeInputs ==
    {[strobe_on_max |-> o, strobe_rate_hz |-> r, strobe_duration_ms |-> d, leds |-> l[1],
      leds_available |-> l[2], elapsed_millis |-> m] :
        o \in BOOLEAN, r \in {-1, 0, 3, 4, 8, 2000},
        d \in {-5000, 0, 100000, 166000, 400000},
        l \in {<<0, 0>>, <<0, 2>>, <<1, 2>>, <<2, 2>>},
        m \in {0, 100, 124, 125, 200, 249, 250, 332, 333, 334, 500, 999}}

InitStrobe == Idle /\ call \in StrobeInputs /\ result = None

CallStrobeActive ==
    /\ result = None
    /\ result' = Some(StrobeActive(call.strobe_on_max, call.strobe_rate_hz,
                                    call.strobe_duration_ms, call.leds, call.leds_available,
                                    call.elapsed_millis))
    /\ UNCHANGED call
    /\ StandsStill

SpecStrobe == InitStrobe /\ [][CallStrobeActive]_vars

(***************************************************************************)
(* The web handler update_config: the strobe fields of the saved           *)
(* configuration                                                           *)
(***************************************************************************)

\* BandwidthConfig::default, lines 141-142: 3 Hz, 166 ms
DefaultStrobe == [strobe_rate_hz |-> 3, strobe_duration_ms |-> 166000]

\* update_config with the duration stored as requested
UpdateConfigUnclamped(c, field, value) ==
    CASE field = "strobe_rate_hz" -> [c EXCEPT !.strobe_rate_hz = value]
      [] field = "strobe_duration_ms" -> [c EXCEPT !.strobe_duration_ms = value]
      [] OTHER -> c

\* update_config, lines 1815-1831: the configuration saved after one field update
UpdateConfig(c, field, value) ==
    CASE field = "strobe_rate_hz" ->
           IF value > 0
           THEN [c EXCEPT !.strobe_rate_hz = value,
                          !.strobe_duration_ms = Min(@, 1000000 \div value)]
           ELSE [c EXCEPT !.strobe_rate_hz = value]
      [] field = "strobe_duration_ms" ->
           LET max_duration == IF c.strobe_rate_hz > 0 THEN 1000000 \div c.strobe_rate_hz
                               ELSE 1000000
           IN [c EXCEPT !.strobe_duration_ms = Min(IF value < 0 THEN 0 ELSE value, max_duration)]
      [] OTHER -> c

\* the field updates the web page posts
StrobeRequests ==
    {[field |-> "strobe_rate_hz", value |-> v] : v \in {-1, 0, 1, 3, 4, 8, 2000}}
      \cup {[field |-> "strobe_duration_ms", value |-> v] :
                v \in {-5000, 0, 100000, 250000, 400000, 2000000}}
      \cup {[field |-> "fps", value |-> 30]}

InitHttp == Idle /\ call = None /\ result = Some(DefaultStrobe)

HttpUpdate(request) ==
    /\ call' = Some(request)
    /\ result' = Some(UpdateConfig(Unwrap(result), request.field, request.value))
    /\ StandsStill

NextHttp == \E request \in StrobeRequests : HttpUpdate(request)

SpecHttp == InitHttp /\ [][NextHttp]_vars

\* the animation offset of one direction over up to MaxTicks render ticks: each
\* tick has its own displayed bandwidth (of a maximum of 8 kbps), speed settings,
\* delta and strip length (fps > 0, total_leds >= 2, delta >= 0)
MaxTicks == 3

OffsetTicks ==
    {[kbps |-> k, animation_speed |-> a, scale_animation_speed |-> s, max_bandwidth_kbps |-> 8,
      fps |-> 60, delta |-> d, total_leds |-> n] :
        k \in {0, 4, 8}, a \in {-1, 0, 1}, s \in BOOLEAN, d \in {0, 166665},
        n \in {2, 4, 7}}

InitOffsets == Idle /\ call = None /\ result = Some([offset |-> 0, ticks |-> 0])

OffsetTick(tick) ==
    /\ Unwrap(result).ticks < MaxTicks
    /\ call' = Some(tick)
    /\ result' = Some([offset |-> AdvanceOffset(Unwrap(result).offset,
                                                LedsPerSecond([num |-> tick.kbps, den |-> 1], tick),
                                                tick.delta, tick.total_leds \div 2),
                       ticks |-> Unwrap(result).ticks + 1])
    /\ StandsStill

NextOffsets == \E tick \in OffsetTicks : OffsetTick(tick)

SpecOffsets == InitOffsets /\ [][NextOffsets]_vars

\* the painting of one direction by render_frame: every combination of strobe
\* state, blending flag, palette of 0..2 colors and cached curve, on 0, 1 or 3
\* lit positions of a 6 LED strip
PaintCurve == BuildGradientFromColor(RedGreen, TRUE, "Linear").gradient

PaintInputs ==
    {[strobe_active |-> a, use_gradient |-> u, colors |-> c, gradient |-> g, positions |-> p,
      animation_direction |-> d, offset |-> o, strobe_color |-> <<255, 255, 255>>,
      solid_color |-> <<0, 153, 255>>, leds_per_direction |-> 3] :
        a \in BOOLEAN, u \in BOOLEAN,
        c \in {<<>>, <<<<255, 0, 0>>>>, <<<<255, 0, 0>>, <<0, 255, 0>>>>},
        g \in {None, PaintCurve}, p \in {<<>>, <<0>>, <<2, 1, 0>>},
        d \in {"left", "right"}, o \in {0, OffsetDen \div 2}}

InitPaint == Idle /\ call \in PaintInputs /\ result = None

CallPaint ==
    /\ result = None
    /\ result' = Some([i \in 1..Len(call.positions) |->
                         PaintPixel(i - 1, call.positions[i], Len(call.positions),
                                    call.strobe_active, call.strobe_color, call.use_gradient,
                                    call.colors, call.gradient, call.solid_color,
                                    call.animation_direction, call.offset,
                                    call.leds_per_direction)])
    /\ UNCHANGED call
    /\ StandsStill

SpecPaint == InitPaint /\ [][CallPaint]_vars

\* Rgb::from_hex and build_gradient_from_color on color specs of one or two
\* entries (and one of three), well-formed and not, with blending on and off
ColorEntries ==
    {Empty, Red, Blue, Green, NotHex, Short, Signed, Padded, Seven, Sliced, AccentFirst}

ColorSpecs ==
    ColorEntries \cup {a \o <<",">> \o b : a, b \in ColorEntries}
                 \cup {Red \o <<",">> \o Green \o <<",", " ">> \o Blue}

ColorInputs ==
    {[color_str |-> c, use_gradient |-> u, interpolation_mode |-> "Linear"] :
        c \in ColorSpecs, u \in BOOLEAN}

InitColors == Idle /\ call \in ColorInputs /\ result = None

CallBuildGradient ==
    /\ result = None
    /\ result' = Some([from_hex |-> FromHex(call.color_str),
                       built |-> BuildGradientFromColor(call.color_str, call.use_gradient,
                                                        call.interpolation_mode)])
    /\ UNCHANGED call
    /\ StandsStill

SpecColors == InitColors /\ [][CallBuildGradient]_vars

\* the layout of one tick, as render_frame computes it from the split to the
\* positions (lines 755-762 and 809): strips of 2..MaxStrip LEDs, splits within
\* 0..100, every mode and swap, displayed bandwidths from nothing to above the
\* maximum of 8 kbps
LayoutInputs ==
    {[total_leds |-> n, rx_split_percent |-> p, direction |-> d, swap |-> s,
      rx_kbps |-> r, tx_kbps |-> t, max_bandwidth_kbps |-> 8] :
        n \in 2..MaxStrip, p \in {0, 25, 50, 75, 100}, d \in DirectionModes, s \in BOOLEAN,
        r \in {0, 4, 8, 12}, t \in {0, 4, 8}}

InitLayout == Idle /\ call \in LayoutInputs /\ result = None

CallLayout ==
    /\ result = None
    /\ result' = Some(CalculateLedPositions(
                         CalculateLeds([num |-> call.tx_kbps, den |-> 1], call.max_bandwidth_kbps,
                                       TxLedsAvailable(call.total_leds, call.rx_split_percent)),
                         CalculateLeds([num |-> call.rx_kbps, den |-> 1], call.max_bandwidth_kbps,
                                       RxLedsAvailable(call.total_leds, call.rx_split_percent)),
                         call.direction, call.swap, call.total_leds, call.total_leds \div 2))
    /\ UNCHANGED call
    /\ StandsStill

SpecLayout == InitLayout /\ [][CallLayout]_vars

(***************************************************************************)
(* BandwidthTracker: samples from the lines of /proc/net/dev                *)
(***************************************************************************)

\* A line is its text split at ':' (`colons` of them), the trimmed interface
\* name before the first one and the whitespace-separated fields after it; a
\* field is the number it parses to as a u64, or -1 when it does not parse.
\* Time is in milliseconds; a sample is a pair of fractions of kbps.
ProcNetLine(iface, rx_bytes, tx_bytes) ==
    [colons |-> 1, iface |-> iface,
     fields |-> <<rx_bytes, 0, 0, 0, 0, 0, 0, 0, tx_bytes, 0, 0, 0, 0, 0, 0, 0>>]

\* HashMap::insert
Insert(interfaces, iface, state) ==
    [i \in DOMAIN interfaces \cup {iface} |-> IF i = iface THEN state ELSE interfaces[i]]

\* u64::saturating_sub
SaturatingSub(a, b) == IF a >= b THEN a - b ELSE 0

\* update_from_procnet_line with the plain difference of the counters
UpdateFromProcnetLineSigned(interfaces, line, instant) ==
    IF line.colons + 1 # 2 \/ Len(line.fields) < 16 \/ line.fields[1] < 0 \/ line.fields[9] < 0
    THEN [interfaces |-> interfaces, sample |-> None]
    ELSE LET rx_bytes == line.fields[1]
             tx_bytes == line.fields[9]
             stored == [prev_rx_bytes |-> rx_bytes, prev_tx_bytes |-> tx_bytes,
                        prev_time |-> instant]
             seen == line.iface \in DOMAIN interfaces
             time_delta == IF seen THEN instant - interfaces[line.iface].prev_time ELSE 0
         IN IF seen /\ time_delta > 0
            THEN [interfaces |-> Insert(interfaces, line.iface, stored),
                  sample |-> Some(<<[num |-> (rx_bytes - interfaces[line.iface].prev_rx_bytes) * 8,
                                     den |-> time_delta],
                                    [num |-> (tx_bytes - interfaces[line.iface].prev_tx_bytes) * 8,
                                     den |-> time_delta]>>)]
            ELSE [interfaces |-> Insert(interfaces, line.iface, stored), sample |-> None]

\* BandwidthTracker::update_from_procnet_line, lines 1127-1184, at the monotonic
\* clock reading `instant`: the tracker's map afterwards and the returned sample
UpdateFromProcnetLine(interfaces, line, instant) ==
    IF line.colons + 1 # 2 \/ Len(line.fields) < 16 \/ line.fields[1] < 0 \/ line.fields[9] < 0
    THEN [interfaces |-> interfaces, sample |-> None]
    ELSE LET rx_bytes == line.fields[1]
             tx_bytes == line.fields[9]
             stored == [prev_rx_bytes |-> rx_bytes, prev_tx_bytes |-> tx_bytes,
                        prev_time |-> instant]
             seen == line.iface \in DOMAIN interfaces
             time_delta == IF seen THEN instant - interfaces[line.iface].prev_time ELSE 0
         IN IF seen /\ time_delta > 0
            THEN LET rx_delta == SaturatingSub(rx_bytes, interfaces[line.iface].prev_rx_bytes)
                     tx_delta == SaturatingSub(tx_bytes, interfaces[line.iface].prev_tx_bytes)
                 IN [interfaces |-> Insert(interfaces, line.iface, stored),
                     sample |-> Some(<<[num |-> rx_delta * 8, den |-> time_delta],
                                       [num |-> tx_delta * 8, den |-> time_delta]>>)]
            ELSE [interfaces |-> Insert(interfaces, line.iface, stored), sample |-> None]

\* BandwidthTracker::new, line 1120
NewTracker == [i \in {} |-> 0]

\* up to MaxLines lines read one after the other, each some milliseconds after
\* the one before: well-formed lines of two interfaces with counters going up
\* and down, and lines that are skipped
MaxLines == 3

ProcNetLines ==
    {ProcNetLine(i, r, t) : i \in {"eth0", "lo"}, r \in {0, 5, 9}, t \in {0, 5}}
      \cup {[ProcNetLine("eth0", 5, 5) EXCEPT !.colons = 0],
            [ProcNetLine("eth0", 5, 5) EXCEPT !.colons = 2],
            [ProcNetLine("eth0", 5, 5) EXCEPT !.fields = SubSeq(@, 1, 15)],
            ProcNetLine("eth0", -1, 5), ProcNetLine("eth0", 5, -1)}

InitTracker ==
    /\ Idle
    /\ call = None
    /\ result = Some([interfaces |-> NewTracker, before |-> NewTracker, sample |-> None,
                       instant |-> 0, lines |-> 0])

ReadLine(line, elapsed) ==
    LET tracker == Unwrap(result)
        instant == tracker.instant + elapsed
        updated == UpdateFromProcnetLine(tracker.interfaces, line, instant)
    IN /\ tracker.lines < MaxLines
       /\ call' = Some([line |-> line, instant |-> instant])
       /\ result' = Some([interfaces |-> updated.interfaces, before |-> tracker.interfaces,
                           sample |-> updated.sample, instant |-> instant,
                           lines |-> tracker.lines + 1])
       /\ StandsStill

NextTracker == \E line \in ProcNetLines, elapsed \in {0, 2} : ReadLine(line, elapsed)

SpecTracker == InitTracker /\ [][NextTracker]_vars

\* parse_bandwidth_line, lines 1186-1211, for a line of /proc/net/dev (17
\* whitespace-separated parts, so never the 7 columns of netstat) and a tracker
\* that exists (line 2386): a line with a colon goes to the tracker
ParseBandwidthLine(interfaces, line, instant) ==
    IF line.colons >= 1 THEN UpdateFromProcnetLine(interfaces, line, instant)
    ELSE [interfaces |-> interfaces, sample |-> None]

\* Two interfaces monitored ("eth0,lo"): every second the monitor script of
\* spawn_procnet_monitor prints the /proc/net/dev line of each, in the file's
\* order, and the main loop reads the lines one by one, each through
\* parse_bandwidth_line, applying every sample that comes back (lines
\* 2432-2459).  `traffic` is what each interface received and sent during the
\* round, in bytes; the lines of a round are read 1000 ms after those of the
\* round before.
MaxRounds == 3

Monitored == <<"eth0", "lo">>

RoundTraffic == {<<0, 0>>, <<1, 0>>, <<2, 1>>}

NoTraffic == [i \in {Monitored[k] : k \in 1..Len(Monitored)} |-> <<0, 0>>]

InitRounds ==
    /\ Idle
    /\ call = None
    /\ result = Some([interfaces |-> NewTracker, counters |-> NoTraffic, traffic |-> NoTraffic,
                       pending |-> <<>>, round |-> 0, instant |-> 0,
                       sample |-> None, applied |-> None])

\* `cat /proc/net/dev | egrep ...; sleep 1`: the counters of the next round
PollRound(traffic) ==
    LET r == Unwrap(result)
    IN /\ r.pending = <<>>
       /\ r.round < MaxRounds
       /\ result' = Some([r EXCEPT !.counters = [i \in DOMAIN @ |->
                                                   <<@[i][1] + traffic[i][1],
                                                     @[i][2] + traffic[i][2]>>],
                                    !.traffic = traffic,
                                    !.pending = Monitored,
                                    !.round = @ + 1,
                                    !.instant = @ + 1000,
                                    !.sample = None])
       /\ UNCHANGED call
       /\ StandsStill

\* one iteration of the main loop with a line waiting in the channel
ReadRoundLine ==
    LET r == Unwrap(result)
        iface == Head(r.pending)
        line == ProcNetLine(iface, r.counters[iface][1], r.counters[iface][2])
        parsed == ParseBandwidthLine(r.interfaces, line, r.instant)
    IN /\ r.pending # <<>>
       /\ call' = Some([line |-> line, instant |-> r.instant])
       /\ result' = Some([r EXCEPT !.interfaces = parsed.interfaces,
                                    !.pending = Tail(@),
                                    !.sample = parsed.sample,
                                    !.applied = IF IsSome(parsed.sample)
                                                THEN parsed.sample ELSE @])
       /\ StandsStill

NextRounds ==
    \/ \E traffic \in [DOMAIN NoTraffic -> RoundTraffic] : PollRound(traffic)
    \/ ReadRoundLine

SpecRounds == InitRounds /\ [][NextRounds]_vars

(***************************************************************************)
(* Properties                                                              *)
(***************************************************************************)

RenderThreadGone == pc \in {"exited", "panicked"}

\* the clock of the model has no room left for another sleep
ClockExhausted == \A d \in SleepDurations : now + d > MaxClock

\* C1: every render tick works from one observation of the shared state: when
\* render_frame copies its values out, the shared state still has the generation
\* the tick's cache check read and the fps the tick was paced with.
C1_TickReadsOneSnapshot ==
    [][(pc = "render" /\ pc' # "render")
          => (last_generation = shared.generation /\ fps = shared.fps)]_vars

\* C2: the cache check rebuilds exactly when the shared generation differs from
\* the cached one; after a rebuild the cached generation is the generation read
\* and the cache is the build of the colors, gradient flag and interpolation
\* mode read under the same lock; otherwise, and in every other step, the cache
\* and the cached generation stay as they are.
C2_RebuildIffGenerationChanged ==
    [][IF pc = "cache" /\ pc' # "cache" /\ shared.generation # last_generation
          /\ BuildGradientFromColor(shared.tx_color, shared.use_gradient,
                                    shared.interpolation_mode).ok
          /\ BuildGradientFromColor(shared.rx_color, shared.use_gradient,
                                    shared.interpolation_mode).ok
       THEN /\ last_generation' = shared.generation
            /\ cache'.tx_colors = ParseColors(shared.tx_color).colors
            /\ cache'.rx_colors = ParseColors(shared.rx_color).colors
            /\ cache'.tx_solid_color = cache'.tx_colors[1]
            /\ cache'.rx_solid_color = cache'.rx_colors[1]
            /\ IsSome(cache'.tx_gradient) = (shared.use_gradient /\ Len(cache'.tx_colors) >= 2)
            /\ IsSome(cache'.rx_gradient) = (shared.use_gradient /\ Len(cache'.rx_colors) >= 2)
            /\ IsSome(cache'.tx_gradient) =>
                 Unwrap(cache'.tx_gradient).interpolation = CgInterpolation(shared.interpolation_mode)
       ELSE cache' = cache /\ last_generation' = last_generation]_vars

C2_Witness ==
    /\ pc = "render"
    /\ last_generation > 0
    /\ last_generation = shared.generation
    /\ Len(cache.tx_colors) = 2
    /\ IsSome(cache.tx_gradient)
    /\ Len(cache.rx_colors) = 1

\* C3: a step that changes the tx color, the rx color, the gradient flag, the
\* interpolation mode or the direction mode of the shared state increases its
\* generation in the same step.
C3_InvalidatingWriteBumpsGeneration ==
    [][(\/ shared'.tx_color # shared.tx_color
        \/ shared'.rx_color # shared.rx_color
        \/ shared'.use_gradient # shared.use_gradient
        \/ shared'.interpolation_mode # shared.interpolation_mode
        \/ shared'.direction # shared.direction)
          => shared'.generation > shared.generation]_vars

C3_Witness ==
    /\ shared.generation > 0
    /\ shared.interpolation_mode = "Basis"
    /\ config.interpolation = "Basis"

\* C4: generation starts at 0 and never decreases.
C4_GenerationMonotonic ==
    /\ shared.generation = 0
    /\ [][shared'.generation >= shared.generation]_vars

C4_Witness == shared.generation = MaxGeneration /\ IsSome(shared.last_bandwidth_update)

\* the configuration fields that leave the cached gradients valid, and the test-mode fields
NonInvalidatingFields ==
    {"max_gbps", "animation_speed", "scale_animation_speed", "tx_animation_direction",
     "rx_animation_direction", "interpolation_time_ms", "fps", "total_leds",
     "rx_split_percent", "strobe_on_max", "strobe_rate_hz", "strobe_duration_ms",
     "strobe_color", "test_tx", "test_rx", "test_tx_percent", "test_rx_percent"}

\* C5: a bandwidth sample, a test-mode change and a configuration update that
\* changes only max bandwidth, animation speed, speed scaling, animation
\* directions, interpolation time, fps, total LEDs, split percentage, strobe
\* settings or test-mode settings leave generation unchanged.
C5_OtherUpdatesKeepGeneration ==
    [][LET applied == IF main_pc = "loop" /\ IsSome(new_config')
                      THEN Unwrap(new_config') ELSE config'
       IN (main_pc = "loop"
           => \A f \in DOMAIN config \ NonInvalidatingFields : applied[f] = config[f])
          => shared'.generation = shared.generation]_vars

C5_Witness ==
    /\ shared.generation = 0
    /\ shared.fps = 30
    /\ shared.current_rx_kbps = 8
    /\ main_pc = "loop"

\* C6: whenever strobe_rate_hz > 0, strobe_duration_ms <= 1000 / strobe_rate_hz
\* (the duration is held in thousandths of a millisecond).
C6_StrobeDurationWithinCycle ==
    shared.strobe_rate_hz > 0
      => shared.strobe_duration_ms * shared.strobe_rate_hz <= 1000000

\* C7: once the shutdown flag is set, at most one more frame reaches the Frame
\* Sink; a render thread that has left its loop stays out of it and writes
\* nothing; and a fairly scheduled render thread leaves its loop after the flag
\* is set (as long as the clock of the model lets its sleep return).
C7_CooperativeShutdown ==
    /\ [](writes_after_stop <= 1)
    /\ [][pc = "exited" => (pc' = "exited" /\ sink_writes' = sink_writes)]_vars
    /\ [][(pc = "poll" /\ pc' = "exited") => shutdown]_vars
    /\ (shutdown ~> (RenderThreadGone \/ (pc = "sleep" /\ ClockExhausted)))

C7_Witness == pc = "exited" /\ writes_after_stop = 1

\* C8: the render loop ends only by observing the shutdown flag set: no tick,
\* failed or not, ends it.
C8_LoopEndsOnlyOnShutdown ==
    [][(RenderThreadGone' /\ ~RenderThreadGone) => (pc = "poll" /\ shutdown)]_vars

\* C9: a tick hands the Frame Sink nothing, or exactly one write at offset 0 of a
\* buffer of total_leds * 3 bytes (3 bytes per LED) in which every lit position
\* of the tick is painted; a tick that ends in the cache check or aborts writes
\* nothing, and nothing is written outside render_frame.
C9_OneFullFramePerTick ==
    [][IF pc = "render" /\ pc' = "sleep"
       THEN \/ sink_writes' = sink_writes
            \/ /\ Len(sink_writes') = 1
               /\ sink_writes'[1].offset = 0
               /\ 3 * Len(sink_writes'[1].buffer) = shared.total_leds * 3
               /\ LET tick == RenderTick(shared, cache, tx_animation_offset,
                                         rx_animation_offset, delta, now)
                  IN \A i \in 1..shared.total_leds :
                        (\/ \E k \in 1..Len(tick.tx_positions) : tick.tx_positions[k] = i - 1
                         \/ \E k \in 1..Len(tick.rx_positions) : tick.rx_positions[k] = i - 1)
                        <=> sink_writes'[1].buffer[i].src # "zero"
       ELSE sink_writes' = sink_writes]_vars

C9_Witness ==
    /\ pc = "sleep"
    /\ Len(sink_writes) = 1
    /\ \E i \in 1..Len(sink_writes[1].buffer) : sink_writes[1].buffer[i].src = "solid"
    /\ \E i \in 1..Len(sink_writes[1].buffer) : sink_writes[1].buffer[i].src = "zero"

\* C10 as claimed: a frame is rendered only if the time elapsed since the last
\* rendered frame is at least 1/fps seconds (10^7 ticks make a second).
C10_RendersOnlyAfterFramePeriod ==
    [][(pc = "fps" /\ pc' = "cache") => (now - last_frame) * shared.fps >= 10000000]_vars

\* C10 as amended: a frame is rendered only if the time elapsed since the last
\* rendered frame is at least the frame period truncated to whole microseconds,
\* (1_000_000 / fps) as u64, for the fps read from the shared state in that
\* iteration; the delta of the tick is the elapsed time, and the deltas of all
\* rendered ticks sum to the time between the loop start (0) and the last
\* rendered frame.
C10_PacedByTruncatedPeriod ==
    /\ [](delta_total = last_frame)
    /\ [][(pc = "fps" /\ pc' # "fps")
            => /\ fps' = shared.fps
               /\ pc' = "cache" =>
                    /\ shared.fps > 0 => now - last_frame >= (1000000 \div shared.fps) * 10
                    /\ delta' = now - last_frame
                    /\ last_frame' = now]_vars

C10_Witness ==
    /\ pc = "cache"
    /\ last_frame = 2 * 166665
    /\ delta = 166665
    /\ delta_total = 2 * 166665

\* C11: the render thread holds the shared-state lock only while it copies
\* fields: gradient building, bandwidth interpolation and the effective-speed
\* computation happen after the lock is released.
C11_LockHeldOnlyForReads == lock_work \subseteq {"read"}

\* the four bandwidth values of a shared render state
BandwidthFields(s) == <<s.current_rx_kbps, s.current_tx_kbps, s.start_rx_kbps, s.start_tx_kbps>>

\* a step of main() that applies a Bandwidth Feed sample
IsSampleStep ==
    /\ main_pc = "loop" /\ main_pc' = "loop"
    /\ config' = config /\ new_config' = new_config
    /\ shared'.last_bandwidth_update = Some(now)
    /\ shared'.start_rx_kbps = shared.current_rx_kbps
    /\ shared'.start_tx_kbps = shared.current_tx_kbps

\* C12 as claimed: the current and start bandwidth values change only in a step
\* that applies a Bandwidth Feed sample.
C12_OnlySamplesWriteBandwidth ==
    [][BandwidthFields(shared') # BandwidthFields(shared) => IsSampleStep]_vars

\* C12 as amended: the current and start bandwidth values change only when a
\* sample is applied or when test mode installs its values (before the main loop
\* starts, or in the test-mode block of a configuration update), and then only
\* for a direction whose test flag is set; the first critical section of a
\* configuration update never writes them.
C12_SamplesAndTestModeWriteBandwidth ==
    [][BandwidthFields(shared') # BandwidthFields(shared)
         => \/ IsSampleStep
            \/ /\ main_pc \in {"init", "test"}
               /\ main_pc' = "loop"
               /\ <<shared'.current_rx_kbps, shared'.start_rx_kbps>>
                    # <<shared.current_rx_kbps, shared.start_rx_kbps>> => config'.test_rx
               /\ <<shared'.current_tx_kbps, shared'.start_tx_kbps>>
                    # <<shared.current_tx_kbps, shared.start_tx_kbps>> => config'.test_tx]_vars

C12_Witness ==
    /\ main_pc = "loop"
    /\ config.test_rx
    /\ shared.current_rx_kbps = 8
    /\ shared.start_rx_kbps = 0
    /\ shared.current_tx_kbps = 0
    /\ shared.max_bandwidth_kbps = 8

\* C13: for max > 0 and bw >= 0, calculate_leds(bw, max, avail) is
\* min(floor(bw / max * avail), avail): it lies in 0..avail, is avail whenever
\* bw >= max, is the floor of bw * avail / max below that, never exceeds the
\* result for a larger bw, and gives 300 and 150 LEDs of 600 at a half and a
\* quarter of the maximum.
C13_CalculateLeds ==
    IsSome(result) =>
      LET leds == Unwrap(result)
      IN /\ leds \in 0..call.avail
         /\ call.bw >= call.max => leds = call.avail
         /\ call.bw < call.max =>
              /\ leds * call.max <= call.bw * call.avail
              /\ call.bw * call.avail < (leds + 1) * call.max
         /\ \A smaller \in 0..call.bw :
              CalculateLeds([num |-> smaller, den |-> 1], call.max, call.avail) <= leds
         /\ (call.max = 1000 /\ call.avail = 600 /\ call.bw = 500) => leds = 300
         /\ (call.max = 1000 /\ call.avail = 600 /\ call.bw = 250) => leds = 150

C13_Witness ==
    /\ call = [bw |-> 2000, max |-> 1000, avail |-> 600]
    /\ result = Some(600)

\* the split percentage clamped to [0, 100]
ClampedSplit == IF call.rx_split_percent < 0 THEN 0
                ELSE IF call.rx_split_percent > 100 THEN 100 ELSE call.rx_split_percent

\* C14 as claimed: rx_available is total_leds * rx_split_percent / 100 (with the
\* percentage clamped to [0, 100]) rounded to the nearest integer, tx_available is
\* total_leds - rx_available, both lie in 0..total_leds and sum to total_leds.
C14_SplitRounded ==
    IsSome(result) =>
      LET split == Unwrap(result)
      IN /\ 2 * split.rx * 100 <= 2 * call.total_leds * ClampedSplit + 100
         /\ 2 * call.total_leds * ClampedSplit - 100 < 2 * split.rx * 100
         /\ split.tx = call.total_leds - split.rx
         /\ split.rx \in 0..call.total_leds
         /\ split.tx \in 0..call.total_leds

\* C14 as amended: rx_available is total_leds * rx_split_percent / 100 (with the
\* percentage clamped to [0, 100]) truncated to an integer, tx_available is
\* total_leds - rx_available, both lie in 0..total_leds and sum to total_leds.
C14_SplitTruncated ==
    IsSome(result) =>
      LET split == Unwrap(result)
      IN /\ split.rx * 100 <= call.total_leds * ClampedSplit
         /\ call.total_leds * ClampedSplit < (split.rx + 1) * 100
         /\ split.tx = call.total_leds - split.rx
         /\ split.rx \in 0..call.total_leds
         /\ split.tx \in 0..call.total_leds
         /\ split.rx + split.tx = call.total_leds

C14_Witness ==
    /\ call = [total_leds |-> 6, rx_split_percent |-> 75]
    /\ result = Some([rx |-> 4, tx |-> 2])

NoRepeats(positions) ==
    \A i, j \in 1..Len(positions) : i # j => positions[i] # positions[j]

\* C15: for every direction mode, both swap values and every (tx_leds, rx_leds)
\* with tx_leds + rx_leds <= total_leds, calculate_led_positions returns exactly
\* tx_leds tx positions and rx_leds rx positions, each without repeats, and no
\* position occurs in both.
C15_PositionsDisjoint ==
    (IsSome(result) /\ call.tx_leds + call.rx_leds <= call.total_leds) =>
      LET positions == Unwrap(result)
      IN /\ Len(positions.tx) = call.tx_leds
         /\ Len(positions.rx) = call.rx_leds
         /\ NoRepeats(positions.tx)
         /\ NoRepeats(positions.rx)
         /\ \A i \in 1..Len(positions.tx), j \in 1..Len(positions.rx) :
               positions.tx[i] # positions.rx[j]

C17_InterpolationFactorInUnitInterval ==
    IsSome(result) =>
      LET kbps == Unwrap(result).kbps
      IN IF IsSome(call.last_update)
         THEN LET t == Unwrap(Unwrap(result).t)
              IN /\ 0 <= t.num
                 /\ t.num <= t.den
                 /\ kbps.den = t.den
                 /\ kbps.num = call.start * t.den + (call.current - call.start) * t.num
         ELSE kbps.num = call.current * kbps.den

\* C18: a direction strobes exactly when strobing is enabled, rate_hz > 0, the
\* direction lights all of its budget and now_ms mod cycle_ms >=
\* cycle_ms - min(duration_ms, cycle_ms) with cycle_ms = 1000 / rate_hz.  (The
\* comparison is multiplied by rate_hz * 1000; the duration is in thousandths of
\* a millisecond.)
C18_StrobeActivation ==
    IsSome(result) =>
      /\ ~Unwrap(result).panics
      /\ Unwrap(result).active
           <=> /\ call.strobe_on_max
               /\ call.strobe_rate_hz > 0
               /\ call.leds = call.leds_available
               /\ 1000 * ((call.elapsed_millis * call.strobe_rate_hz) % 1000)
                    >= 1000000 - (IF call.strobe_duration_ms * call.strobe_rate_hz < 1000000
                                  THEN call.strobe_duration_ms * call.strobe_rate_hz
                                  ELSE 1000000)

C20_OffsetsInUnitInterval ==
    /\ [](IsSome(result) => Unwrap(result).offset \in 0..(OffsetDen - 1))
    /\ [][LET tick == Unwrap(call')
              before == Unwrap(result).offset
              after == Unwrap(result').offset
              speed_fps == LedsPerSecond([num |-> tick.kbps, den |-> 1], tick)
              leds_per_direction == tick.total_leds \div 2
          IN IF speed_fps > 0
             THEN \E wraps \in 0..2 :
                     after * leds_per_direction + wraps * OffsetDen * leds_per_direction
                       = before * leds_per_direction + speed_fps * tick.delta * 6
             ELSE after = before]_vars

C20_Witness == result = Some([offset |-> 29999100, ticks |-> 3])

\* the source the priority order names for the direction being painted
PaintSource ==
    IF call.strobe_active THEN "strobe"
    ELSE IF ~call.use_gradient /\ Len(call.colors) >= 2 THEN "palette"
    ELSE IF IsSome(call.gradient) THEN "gradient"
    ELSE "solid"

\* C21: a direction is painted from exactly one source, chosen in priority
\* order: the strobe color when its strobe is active; else the palette pattern
\* when blending is off and the palette has 2 or more colors; else the cached
\* continuous curve when there is one; else the solid color.
C21_PaintPriority ==
    IsSome(result) =>
        LET pixels == Unwrap(result)
        IN /\ Len(pixels) = Len(call.positions)
           /\ \A i \in 1..Len(pixels) :
                 /\ pixels[i].src = PaintSource
                 /\ PaintSource = "strobe" => pixels[i].rgb = call.strobe_color
                 /\ PaintSource = "palette" =>
                       \E k \in 1..Len(call.colors) : pixels[i].rgb = call.colors[k]
                 /\ PaintSource = "gradient" => pixels[i].curve = call.gradient
                 /\ PaintSource = "solid" => pixels[i].rgb = call.solid_color

\* three positions painted with the palette pattern although a curve is cached
C21_Witness ==
    /\ IsSome(result)
    /\ ~call.strobe_active /\ ~call.use_gradient /\ Len(call.colors) = 2
    /\ IsSome(call.gradient)
    /\ Len(Unwrap(result)) = 3
    /\ \A i \in 1..3 : Unwrap(result)[i].src = "palette"

\* a string of exactly 6 hexadecimal digits
IsSixHexDigits(str) == Len(str) = 6 /\ \A k \in 1..6 : str[k] \in HexDigits

\* the comma-separated, whitespace-trimmed entries of a color spec
EntriesOf(color_str) ==
    LET pieces == SplitComma(color_str, <<>>)
    IN [k \in 1..Len(pieces) |-> Trim(pieces[k])]

AllEntriesSixHexDigits(color_str) ==
    \A k \in 1..Len(EntriesOf(color_str)) : IsSixHexDigits(EntriesOf(color_str)[k])

ColorOf(str) ==
    <<16 * HexVal(str[1]) + HexVal(str[2]), 16 * HexVal(str[3]) + HexVal(str[4]),
      16 * HexVal(str[5]) + HexVal(str[6])>>

\* C23: for a valid color spec the build succeeds, it produces a continuous
\* curve exactly when the spec has 2 or more colors and use_gradient is set,
\* the palette is the list of the colors of the spec in input order and the
\* solid color is the first of them; and every successful build has the solid
\* color at the head of its palette, which has one color per entry.
C23_CurveIffTwoColorsAndGradient ==
    IsSome(result) =>
        LET built == Unwrap(result).built
            entries == EntriesOf(call.color_str)
        IN /\ AllEntriesSixHexDigits(call.color_str) =>
                 /\ built.ok
                 /\ IsSome(built.gradient) <=> (Len(entries) >= 2 /\ call.use_gradient)
                 /\ built.colors = [k \in 1..Len(entries) |-> ColorOf(entries[k])]
                 /\ built.solid = ColorOf(entries[1])
           /\ built.ok =>
                 /\ Len(built.colors) = Len(entries)
                 /\ built.solid = built.colors[1]
                 /\ IsSome(built.gradient) <=> (Len(entries) >= 2 /\ call.use_gradient)

\* three valid colors built with blending off: no curve, the palette of three
C23_Witness ==
    /\ IsSome(result)
    /\ ~call.use_gradient
    /\ Len(EntriesOf(call.color_str)) = 3
    /\ Unwrap(result).built.ok
    /\ Unwrap(result).built.gradient = None
    /\ Unwrap(result).built.colors = <<<<255, 0, 0>>, <<0, 255, 0>>, <<0, 153, 255>>>>

\* C24: the empty color spec builds successfully: no continuous curve, an
\* empty palette and the default solid color 0099FF.
C24_EmptySpecFallsBack ==
    (IsSome(result) /\ call.color_str = Empty) =>
        Unwrap(result).built =
            [ok |-> TRUE, gradient |-> None, colors |-> <<>>, solid |-> <<0, 153, 255>>]

\* the control stops of the curve built by the last call, when it built one
StopsBuilt == Unwrap(Unwrap(result).built.gradient).stops

CurveBuilt == IsSome(result) /\ Unwrap(result).built.ok /\ IsSome(Unwrap(result).built.gradient)

\* C25: the curve of N >= 2 colors has exactly 2N+2 control stops, and the last
\* one is the first input color at domain 1.0.
C25_TwoNPlusTwoStops ==
    (CurveBuilt /\ AllEntriesSixHexDigits(call.color_str)) =>
        LET colors == Unwrap(result).built.colors
            last == StopsBuilt[Len(StopsBuilt)]
        IN /\ Len(StopsBuilt) = 2 * Len(colors) + 2
           /\ last.color = colors[1]
           /\ last.num = last.den

\* C26: every input color i of the N (from 0) has two consecutive control stops
\* of its color, at the domains i/N + 0.1/N and (i+1)/N - 0.1/N.
C26_EveryColorHasPlateau ==
    (CurveBuilt /\ AllEntriesSixHexDigits(call.color_str)) =>
        LET colors == Unwrap(result).built.colors
            n == Len(colors)
        IN \A i \in 0..(n - 1) :
             \E k \in 1..(Len(StopsBuilt) - 1) :
                /\ StopsBuilt[k].color = colors[i + 1]
                /\ StopsBuilt[k + 1].color = colors[i + 1]
                /\ StopsBuilt[k].num * 10 * n = (10 * i + 1) * StopsBuilt[k].den
                /\ StopsBuilt[k + 1].num * 10 * n = (10 * (i + 1) - 1) * StopsBuilt[k + 1].den

\* C27: the domains of the control stops are non-decreasing in stop order and
\* lie in [0,1], the first stop is at 0 and the last at 1, and these two stops
\* carry the same color.
C27_DomainsOrderedAndCyclic ==
    CurveBuilt =>
        LET last == Len(StopsBuilt)
        IN /\ \A k \in 1..last :
                 /\ StopsBuilt[k].den > 0
                 /\ 0 <= StopsBuilt[k].num /\ StopsBuilt[k].num <= StopsBuilt[k].den
           /\ \A k \in 1..(last - 1) :
                 StopsBuilt[k].num * StopsBuilt[k + 1].den
                     <= StopsBuilt[k + 1].num * StopsBuilt[k].den
           /\ StopsBuilt[1].num = 0
           /\ StopsBuilt[last].num = StopsBuilt[last].den
           /\ StopsBuilt[1].color = StopsBuilt[last].color

\* the curve of red, green and blue: seven stops from 0 to 1
C27_Witness ==
    /\ CurveBuilt
    /\ Len(Unwrap(result).built.colors) = 3
    /\ Len(StopsBuilt) = 7
    /\ StopsBuilt[1] = [color |-> <<255, 0, 0>>, num |-> 0, den |-> 30]
    /\ StopsBuilt[7] = [color |-> <<255, 0, 0>>, num |-> 30, den |-> 30]

\* a line that is an observation of its interface: two parts around one ':',
\* 16 or more fields, and byte counters that parse
IsObservation(line) ==
    /\ line.colons = 1
    /\ Len(line.fields) >= 16
    /\ line.fields[1] >= 0 /\ line.fields[9] >= 0

C29_TxFirstHalfRxSecondHalf ==
    (/\ IsSome(result)
     /\ ~call.swap
     /\ call.tx_leds <= call.total_leds \div 2
     /\ call.rx_leds <= call.total_leds \div 2) =>
        LET positions == Unwrap(result)
            half == call.total_leds \div 2
        IN /\ \A i \in 1..Len(positions.tx) : positions.tx[i] < half
           /\ \A i \in 1..Len(positions.rx) : positions.rx[i] >= half

\* the pixels of the frame handed to the Frame Sink that were painted with the
\* strobe color
StrobePixels(writes) ==
    {writes[1].buffer[led] : led \in {l \in 1..Len(writes[1].buffer) :
                                          writes[1].buffer[l].src = "strobe"}}

\* C30: a tick whose strobe color does not parse does not fail: it goes on to
\* its sleep, and the frame it emits has black wherever the strobe is painted;
\* a rebuild whose tx or rx color does not parse ends the tick with an error,
\* leaving the cache as it was and emitting nothing.
C30_UnparsedStrobeIsBlack ==
    [][/\ (pc = "render" /\ pc' # "render" /\ ~FromHex(shared.strobe_color).ok) =>
             /\ pc' = "sleep"
             /\ sink_writes' # sink_writes =>
                   \A pixel \in StrobePixels(sink_writes') : pixel.rgb = <<0, 0, 0>>
       /\ (/\ pc = "cache" /\ pc' # "cache"
           /\ NeedsRebuild(shared, last_generation)
           /\ \/ ~ParseColors(shared.tx_color).ok
              \/ ~ParseColors(shared.rx_color).ok) =>
             /\ pc' = "sleep"
             /\ UNCHANGED <<cache, last_generation, sink_writes>>]_vars

\* C31: with total_leds >= 2 and a split within 0..100, every position the tick
\* computes for tx and for rx lies in 0..total_leds-1, for every mode, swap
\* value and pair of bandwidths.
C31_PositionsInsideFrame ==
    IsSome(result) =>
        \A positions \in {Unwrap(result).tx, Unwrap(result).rx} :
            \A i \in 1..Len(positions) : 0 <= positions[i] /\ positions[i] < call.total_leds

\* C32: a step that applies a sample (the only steps that change the shared
\* state here) sets start_rx/start_tx to the values current_rx/current_tx held
\* before it, current_rx/current_tx to the sample applied (the fixed test
\* value for a direction under test), and the timestamp to the time of the
\* step, whatever the renderer has seen of the earlier samples.
C32_SampleLatestWins ==
    [][shared' # shared =>
          /\ shared'.start_rx_kbps = shared.current_rx_kbps
          /\ shared'.start_tx_kbps = shared.current_tx_kbps
          /\ shared'.last_bandwidth_update = Some(now)
          /\ \E sample \in SampleValues :
                /\ shared'.current_rx_kbps = IF config.test_rx THEN 4 ELSE sample[1]
                /\ shared'.current_tx_kbps = sample[2]
          /\ shared' = [shared EXCEPT !.start_rx_kbps = shared'.start_rx_kbps,
                                      !.start_tx_kbps = shared'.start_tx_kbps,
                                      !.current_rx_kbps = shared'.current_rx_kbps,
                                      !.current_tx_kbps = shared'.current_tx_kbps,
                                      !.last_bandwidth_update = shared'.last_bandwidth_update]]_vars

\* the sample (2, 6) applied over (8, 4) before the renderer emitted any frame
C32_Witness ==
    /\ shared.start_rx_kbps = 8 /\ shared.start_tx_kbps = 4
    /\ shared.current_rx_kbps = 2 /\ shared.current_tx_kbps = 6
    /\ sink_writes = <<>>

\* C33: a tick whose rebuild fails, because a tx or rx color does not parse,
\* leaves the cached gradients, palettes, solid colors and generation as they
\* were, emits no frame and ends normally, so that the next tick finds the
\* generation still different and attempts the rebuild again.
C33_FailedRebuildKeepsCache ==
    [][(/\ pc = "cache" /\ pc' # "cache"
        /\ NeedsRebuild(shared, last_generation)
        /\ \/ ~ParseColors(shared.tx_color).ok
           \/ ~ParseColors(shared.rx_color).ok) =>
          /\ cache' = cache
          /\ last_generation' = last_generation
          /\ sink_writes' = sink_writes
          /\ pc' = "sleep"
          /\ NeedsRebuild(shared', last_generation')]_vars

\* C34: whenever strobing is enabled with a positive rate, the cycle length in
\* whole milliseconds is at least 1 and strobe resolution does not abort.
C34_StrobeCycleAtLeastOne ==
    (IsSome(result) /\ call.strobe_on_max /\ call.strobe_rate_hz > 0) =>
        /\ TruncToUnsigned(1000, call.strobe_rate_hz) >= 1
        /\ ~Unwrap(result).panics

\* the bandwidth a tick at time `clock` would display for tx and for rx
DisplayedTx(s, clock) ==
    InterpolatedKbps(s.start_tx_kbps, s.current_tx_kbps, s.last_bandwidth_update,
                     s.interpolation_time_ms, clock)

DisplayedRx(s, clock) ==
    InterpolatedKbps(s.start_rx_kbps, s.current_rx_kbps, s.last_bandwidth_update,
                     s.interpolation_time_ms, clock)

\* equality of two fractions whose denominators are equal or 1
SameFraction(a, b) ==
    IF a.den = b.den THEN a.num = b.num ELSE a.num * b.den = b.num * a.den

\* C35: a test-mode change with only rx under test leaves the start value, the
\* current value and the displayed bandwidth of tx as they were immediately
\* before it, and a change with only tx under test leaves those of rx.
C35_TestModeLeavesOtherDirection ==
    [][(main_pc = "test" /\ main_pc' = "loop") =>
          /\ (Unwrap(new_config).test_rx /\ ~Unwrap(new_config).test_tx) =>
                /\ shared'.start_tx_kbps = shared.start_tx_kbps
                /\ shared'.current_tx_kbps = shared.current_tx_kbps
                /\ SameFraction(DisplayedTx(shared', now), DisplayedTx(shared, now))
          /\ (Unwrap(new_config).test_tx /\ ~Unwrap(new_config).test_rx) =>
                /\ shared'.start_rx_kbps = shared.start_rx_kbps
                /\ shared'.current_rx_kbps = shared.current_rx_kbps
                /\ SameFraction(DisplayedRx(shared', now), DisplayedRx(shared, now))]_vars

\* C36: a step that applies a sample leaves the bandwidth displayed at the
\* instant of the step as it was, for rx and for tx, whatever the time elapsed
\* since the previous sample.
C36_SampleDoesNotJump ==
    [][(\E s \in Samples : BandwidthSample(s[1], s[2])) =>
          /\ SameFraction(DisplayedRx(shared', now), DisplayedRx(shared, now))
          /\ SameFraction(DisplayedTx(shared', now), DisplayedTx(shared, now))]_vars

\* C37: calculate_led_positions with the lit counts and swap both exchanged
\* returns the same two sequences exchanged, in every direction mode and for
\* every strip length; the first sequence returned has tx_leds entries and the
\* second rx_leds entries.
C37_SwapExchangesHalves ==
    IsSome(result) =>
        LET exchanged == CalculateLedPositions(call.rx_leds, call.tx_leds, call.direction,
                                               ~call.swap, call.total_leds,
                                               call.total_leds \div 2)
        IN /\ exchanged.tx = Unwrap(result).rx
           /\ exchanged.rx = Unwrap(result).tx
           /\ Len(Unwrap(result).tx) = call.tx_leds
           /\ Len(Unwrap(result).rx) = call.rx_leds

\* a swapped Opposing strip of 5 LEDs with two tx and one rx LED lit: tx climbs
\* from LED 0 and rx sits at the far end
C37_Witness ==
    /\ IsSome(result)
    /\ call.swap /\ call.direction = "Opposing" /\ call.total_leds = 5
    /\ call.tx_leds = 2 /\ call.rx_leds = 1
    /\ Unwrap(result) = [tx |-> <<0, 1>>, rx |-> <<4>>]

\* is LED `led` (from 0) in the position sequence `positions`
Listed(positions, led) == \E k \in 1..Len(positions) : positions[k] = led

\* C38: in every frame a tick emits, every LED that is in neither the tx nor the
\* rx position sequence of that tick has RGB (0, 0, 0), whatever the frame
\* emitted before it held at that LED.
C38_UnlistedLedsAreBlack ==
    [][(pc = "render" /\ sink_writes' # sink_writes) =>
          LET tick == RenderTick(shared, cache, tx_animation_offset,
                                 rx_animation_offset, delta, now)
          IN \A w \in 1..Len(sink_writes') :
                \A i \in 1..Len(sink_writes'[w].buffer) :
                   (~Listed(tick.tx_positions, i - 1) /\ ~Listed(tick.rx_positions, i - 1))
                      => sink_writes'[w].buffer[i].rgb = <<0, 0, 0>>]_vars

\* a frame rendered after the sample (2, 6) replaced (8, 4) some time into the
\* run: LEDs that (8, 4) lights are dark in it
C38_Witness ==
    /\ pc = "sleep"
    /\ Len(sink_writes) = 1
    /\ Len(sink_writes[1].buffer) = 4
    /\ \E i \in 1..4 : sink_writes[1].buffer[i].src = "solid"
    /\ \E i \in 1..4 : sink_writes[1].buffer[i] = ZeroPixel
    /\ shared.start_rx_kbps = 8 /\ shared.start_tx_kbps = 4
    /\ shared.current_rx_kbps = 2 /\ shared.current_tx_kbps = 6
    /\ IsSome(shared.last_bandwidth_update)
    /\ Unwrap(shared.last_bandwidth_update) > 0
    /\ last_frame > Unwrap(shared.last_bandwidth_update)

\* the bandwidth of all monitored interfaces together over the round, in kbps
CombinedKbps(traffic, k) ==
    [num |-> 8 * (traffic["eth0"][k] + traffic["lo"][k]), den |-> 1000]

\* C39: with two interfaces monitored, a line yields a sample only when the
\* lines of both interfaces of the round have been processed, and that sample,
\* which is the one applied to the shared state, is the bandwidth of both
\* interfaces together.
C39_SampleIsCombined ==
    (IsSome(result) /\ IsSome(Unwrap(result).sample)) =>
        /\ Unwrap(result).pending = <<>>
        /\ Unwrap(result).sample = Some(<<CombinedKbps(Unwrap(result).traffic, 1),
                                          CombinedKbps(Unwrap(result).traffic, 2)>>)
        /\ Unwrap(result).applied = Unwrap(result).sample

====
